---- MODULE Spec2Model ----
(***************************************************************************)
(* ffmpeg-ts: the media graph, its validator, the complexity classifier,   *)
(* the simple and the complex compiler and the filter serializers.         *)
(*                                                                         *)
(* Conventions of the translation                                          *)
(*   - an optional field (x?: T) is None when undefined and Some(v) when   *)
(*     it holds v;                                                         *)
(*   - engine strings (flags, expressions, labels) are TLA+ strings built  *)
(*     with \o; a JS number is an integer and `${n}` is ToString(n);       *)
(*   - a free-text filter parameter (a colour) is a sequence of            *)
(*     one-character strings, so that escaping acts on characters;         *)
(*   - an fps value, the one number whose fractional values matter to the  *)
(*     validator, is held in halves: value 60 is 30 frames per second;     *)
(*   - a string-or-stream value (input source, output destination) is a    *)
(*     record [kind |-> "string" | "stream", value |-> ...].               *)
(***************************************************************************)
EXTENDS Integers, Sequences, FiniteSets, TLC

VARIABLES
    graph,      \* the MediaGraph under construction, validation or compilation
    phase,      \* "building", "validated", "compiled"; "filter", "serialized"
    result,     \* the ValidationResult of the last validateGraph
    compiler,   \* the compiler compile() selected, "none" before it ran
    args,       \* the argument vector compile() returned
    filter,     \* the filter descriptor handed to a serializer
    expr,       \* the expression the serializer returned
    thrown,     \* what assertValid threw: None, or Some(error)
    inputCounter, \* the module-level counter of generateInputId
    chains,     \* the MediaChain instances: their graph and primaryInputId
    calls,      \* the invocations of toArgs, compile, save, pipe and toBuffer
    again,      \* the argument vector of a second compile() of the graph
    run,        \* one invocation of runFFmpeg: its signal, process and outcome
    parser,     \* the progress parser of the run: its buffer and deliveries
    config,     \* the module-level BinaryConfig of the binary resolver
    resolves,   \* the invocations of resolveFFmpeg: where each one stands
    binaryLog   \* the setBinary calls and resolveFFmpeg returns, in order

\* the state of the MediaChain instances and of the calls made on them
chainVars == <<inputCounter, chains, calls>>

\* the state of a second compilation and of one runFFmpeg invocation
runVars == <<again, run, parser, config, resolves, binaryLog>>

\* the state of the binary resolver
binaryVars == <<config, resolves, binaryLog>>

\* the variables the graph, validator and compiler operations leave alone
otherVars == <<thrown, chainVars, runVars>>

vars == <<graph, phase, result, compiler, args, filter, expr, otherVars>>

(***************************************************************************)
(* Bounds of the model                                                     *)
(***************************************************************************)
\* longest free-text parameter (in characters) the serializer is tried on
MaxLen == 3
\* largest number of elements (inputs, streams, filters) of a graph
MaxSize == 4
\* largest value the input-id counter is followed to
MaxCounter == 2
\* largest number of calls made on the chains
MaxCalls == 2
\* longest diagnostic text (in characters) the process writes to stderr
MaxText == 4
\* longest filter list of the video stream handed to the two compilers
MaxFilters == 3
\* largest number of resolveFFmpeg invocations followed
MaxResolves == 2
\* largest number of setBinary calls followed
MaxSets == 2
\* largest number of builder calls made on the chains
MaxBuild == 4

(***************************************************************************)
(* Generic helpers                                                         *)
(***************************************************************************)
None == <<>>

Some(v) == <<v>>

IsSome(o) == o # None

\* Array.prototype.join
RECURSIVE Join(_, _)
Join(parts, sep) ==
    IF parts = <<>> THEN ""
    ELSE IF Len(parts) = 1 THEN parts[1]
    ELSE parts[1] \o sep \o Join(Tail(parts), sep)

\* the TLA+ string spelled by a sequence of one-character strings
RECURSIVE Str(_)
Str(chars) == IF chars = <<>> THEN "" ELSE Head(chars) \o Str(Tail(chars))

\* all sequences over S of length at most n
RECURSIVE SeqsUpTo(_, _)
SeqsUpTo(S, n) ==
    IF n = 0 THEN {<<>>}
    ELSE LET shorter == SeqsUpTo(S, n - 1)
         IN  shorter \cup {Append(s, c) : s \in shorter, c \in S}

\* Array.prototype.includes on a token vector
Contains(seq, tok) == \E i \in 1..Len(seq) : seq[i] = tok

\* the token tok is in seq and immediately followed by val
ContainsPair(seq, tok, val) ==
    \E i \in 1..(Len(seq) - 1) : seq[i] = tok /\ seq[i + 1] = val

(***************************************************************************)
(* Filter serializers (compiler/complex-compiler.ts)                        *)
(***************************************************************************)
\* an Expr is a number or a formula string
NumExpr(n) == [isNum |-> TRUE, num |-> n, str |-> ""]

StrExpr(s) == [isNum |-> FALSE, num |-> 0, str |-> s]

serializeExpr(e) == IF e.isNum THEN ToString(e.num) ELSE e.str

\* String.prototype.replace(/c/g, rep) on a sequence of characters
RECURSIVE ReplaceAll(_, _, _)
ReplaceAll(chars, c, rep) ==
    IF chars = <<>> THEN <<>>
    ELSE (IF Head(chars) = c THEN rep ELSE <<Head(chars)>>)
         \o ReplaceAll(Tail(chars), c, rep)


escapeValue(value) ==
    ReplaceAll(
        ReplaceAll(
            ReplaceAll(value, "\\", <<"\\", "\\">>),
            ":", <<"\\", ":">>),
        "'", <<"'", "\\", "'", "'">>)

\* `if (s)` on an optional free-text parameter: defined and not empty
TruthyText(o) == IsSome(o) /\ o[1] # <<>>

\* `if (s)` on an optional string
TruthyStr(o) == IsSome(o) /\ o[1] # ""

\* `if (n)` on an optional number
TruthyNum(o) == IsSome(o) /\ o[1] # 0

\* `if (b)` on an optional boolean
TruthyBool(o) == IsSome(o) /\ o[1]

\* "key=<n>" when the optional number is defined
OptNum(key, o) == IF IsSome(o) THEN <<key \o ToString(o[1])>> ELSE <<>>

\* "key=<expr>" when the optional Expr is defined
OptExpr(key, o) == IF IsSome(o) THEN <<key \o serializeExpr(o[1])>> ELSE <<>>

\* "key=<s>" when the optional string is truthy
OptStr(key, o) == IF TruthyStr(o) THEN <<key \o o[1]>> ELSE <<>>

\* "key=<escaped>" when the optional free-text parameter is truthy
OptText(key, o) ==
    IF TruthyText(o) THEN <<key \o Str(escapeValue(o[1]))>> ELSE <<>>

\* a variant of the scale branch that passes the -1 sentinel through
serializeScaleRaw(f) ==
    LET w == IF IsSome(f.width) THEN f.width[1] ELSE -2
        h == IF IsSome(f.height) THEN f.height[1] ELSE -2
    IN  "scale=" \o Join(<<"w=" \o ToString(w), "h=" \o ToString(h)>>
                         \o OptStr("flags=", f.algorithm)
                         \o OptStr("force_original_aspect_ratio=",
                                   f.forceOriginalAspectRatio), ":")

serializeScale(f) ==
    LET w == IF IsSome(f.width) THEN f.width[1] ELSE -2
        h == IF IsSome(f.height) THEN f.height[1] ELSE -2
        effectiveW == IF w = -1 THEN -2 ELSE w
        effectiveH == IF h = -1 THEN -2 ELSE h
    IN  "scale=" \o Join(<<"w=" \o ToString(effectiveW),
                           "h=" \o ToString(effectiveH)>>
                         \o OptStr("flags=", f.algorithm)
                         \o OptStr("force_original_aspect_ratio=",
                                   f.forceOriginalAspectRatio), ":")

\* the start, end and duration parameters of trim and atrim
trimParts(f) ==
    OptNum("start=", f.start) \o OptNum("end=", f.end)
        \o OptNum("duration=", f.duration)

\* a variant of the trim branch that forgets the timestamp reset
serializeTrimBare(f) ==
    IF Len(trimParts(f)) > 0 THEN "trim=" \o Join(trimParts(f), ":") ELSE "null"

serializeTrim(f) ==
    IF Len(trimParts(f)) > 0
    THEN "trim=" \o Join(trimParts(f), ":") \o ",setpts=PTS-STARTPTS"
    ELSE "null"

serializeOverlay(f) ==
    "overlay=" \o Join(<<"x=" \o serializeExpr(f.x), "y=" \o serializeExpr(f.y)>>
                       \o (IF TruthyBool(f.enableAlpha) THEN <<"format=auto">> ELSE <<>>)
                       \o (IF TruthyBool(f.shortest) THEN <<"shortest=1">> ELSE <<>>),
                       ":")

\* `${n}` of a number held in halves (an fps value): 60 is 30, 1 is 0.5
HalvesText(n) ==
    LET a == IF n < 0 THEN 0 - n ELSE n
    IN  (IF n < 0 THEN "-" ELSE "") \o ToString(a \div 2)
            \o (IF a % 2 = 1 THEN ".5" ELSE "")

serializeVideoFilter(f) ==
    CASE f.kind = "scale" -> serializeScale(f)
      [] f.kind = "crop" ->
            "crop=" \o Join(<<"w=" \o serializeExpr(f.width),
                              "h=" \o serializeExpr(f.height)>>
                            \o OptExpr("x=", f.x) \o OptExpr("y=", f.y), ":")
      [] f.kind = "fps" ->
            "fps=" \o HalvesText(f.value)
                \o (IF TruthyStr(f.round) THEN ":round=" \o f.round[1] ELSE "")
      [] f.kind = "trim" -> serializeTrim(f)
      [] f.kind = "fade" ->
            "fade=" \o Join(<<"t=" \o f.type, "st=" \o ToString(f.startTime),
                              "d=" \o ToString(f.duration)>>
                            \o OptText("c=", f.color), ":")
      [] f.kind = "rotate" ->
            "rotate=" \o Join(<<"a=" \o serializeExpr(f.angle)>>
                              \o OptExpr("ow=", f.outputWidth)
                              \o OptExpr("oh=", f.outputHeight)
                              \o OptText("c=", f.fillColor), ":")
      [] f.kind = "flip" ->
            IF f.direction = "horizontal" THEN "hflip" ELSE "vflip"
      [] f.kind = "transpose" -> "transpose=" \o ToString(f.direction)
      [] f.kind = "overlay" -> serializeOverlay(f)
      [] f.kind = "pad" ->
            "pad=" \o Join(<<"w=" \o serializeExpr(f.width),
                             "h=" \o serializeExpr(f.height)>>
                           \o OptExpr("x=", f.x) \o OptExpr("y=", f.y)
                           \o OptText("color=", f.color), ":")
      [] f.kind = "setsar" -> "setsar=" \o f.sar
      [] f.kind = "setdar" -> "setdar=" \o f.dar
      [] f.kind = "format" -> "format=" \o Join(f.pixelFormats, "|")

\* highpass and lowpass share their parameter layout
passFilter(name, f) ==
    name \o "=f=" \o ToString(f.frequency)
        \o (IF IsSome(f.poles) THEN ":p=" \o ToString(f.poles[1]) ELSE "")
        \o (IF IsSome(f.width)
            THEN ":w=" \o ToString(f.width[1])
                 \o (IF TruthyStr(f.widthType) THEN ":t=" \o f.widthType[1] ELSE "")
            ELSE "")

serializeAtrim(f) ==
    IF Len(trimParts(f)) > 0
    THEN "atrim=" \o Join(trimParts(f), ":") \o ",asetpts=PTS-STARTPTS"
    ELSE "anull"

serializeAudioFilter(f) ==
    CASE f.kind = "volume" -> "volume=" \o serializeExpr(f.value)
      [] f.kind = "normalize" ->
            IF f.type = "loudnorm"
            THEN LET parts == OptNum("I=", f.targetLoudness)
                              \o OptNum("LRA=", f.loudnessRange)
                              \o OptNum("TP=", f.truePeak)
                 IN  IF Len(parts) > 0 THEN "loudnorm=" \o Join(parts, ":")
                     ELSE "loudnorm"
            ELSE LET parts == OptNum("f=", f.frameLength)
                              \o OptNum("g=", f.gaussSize)
                 IN  IF Len(parts) > 0 THEN "dynaudnorm=" \o Join(parts, ":")
                     ELSE "dynaudnorm"
      [] f.kind = "afade" ->
            "afade=" \o Join(<<"t=" \o f.type, "st=" \o ToString(f.startTime),
                               "d=" \o ToString(f.duration)>>
                             \o OptStr("curve=", f.curve), ":")
      [] f.kind = "atrim" -> serializeAtrim(f)
      [] f.kind = "aresample" -> "aresample=" \o ToString(f.sampleRate)
      [] f.kind = "channelmap" ->
            "channelmap=map=" \o f.map
                \o (IF TruthyStr(f.channelLayout)
                    THEN ":channel_layout=" \o f.channelLayout[1] ELSE "")
      [] f.kind = "channelmix" -> "aformat=channel_layouts=" \o f.layout
      [] f.kind = "adelay" -> "adelay=" \o f.delays
      [] f.kind = "highpass" -> passFilter("highpass", f)
      [] f.kind = "lowpass" -> passFilter("lowpass", f)
      [] f.kind = "equalizer" ->
            "equalizer=f=" \o ToString(f.frequency) \o ":g=" \o ToString(f.gain)
                \o ":w=" \o ToString(f.width)
                \o (IF TruthyStr(f.widthType) THEN ":t=" \o f.widthType[1] ELSE "")

RECURSIVE MapVideo(_)
MapVideo(filters) ==
    IF filters = <<>> THEN <<>>
    ELSE <<serializeVideoFilter(Head(filters))>> \o MapVideo(Tail(filters))

RECURSIVE MapAudio(_)
MapAudio(filters) ==
    IF filters = <<>> THEN <<>>
    ELSE <<serializeAudioFilter(Head(filters))>> \o MapAudio(Tail(filters))

serializeVideoFilterChain(filters) ==
    IF Len(filters) = 0 THEN "" ELSE Join(MapVideo(filters), ",")

serializeAudioFilterChain(filters) ==
    IF Len(filters) = 0 THEN "" ELSE Join(MapAudio(filters), ",")

(***************************************************************************)
(* Graph model and introspection (ast/types, ast/graph)                    *)
(***************************************************************************)
StringValue(s) == [kind |-> "string", value |-> s]

StreamValue(s) == [kind |-> "stream", value |-> s]

createMediaGraph ==
    [inputs |-> <<>>,
     videoStreams |-> <<>>,
     audioStreams |-> <<>>,
     output |-> [destination |-> StringValue(""), format |-> None,
                 video |-> None, audio |-> None, metadata |-> None,
                 flags |-> None],
     options |-> [overwrite |-> Some(TRUE), logLevel |-> None,
                  threads |-> None, hwAccel |-> None]]

getInputIds(g) == {g.inputs[i].id : i \in 1..Len(g.inputs)}

\* Set.prototype.add on a set kept in insertion order
AddRef(refs, r) == IF Contains(refs, r) THEN refs ELSE Append(refs, r)

RECURSIVE overlayRefs(_, _)
overlayRefs(refs, filters) ==
    IF filters = <<>> THEN refs
    ELSE overlayRefs(IF Head(filters).kind = "overlay"
                     THEN AddRef(refs, Head(filters).inputRef) ELSE refs,
                     Tail(filters))

RECURSIVE videoRefs(_, _)
videoRefs(refs, streams) ==
    IF streams = <<>> THEN refs
    ELSE videoRefs(overlayRefs(AddRef(refs, Head(streams).inputRef),
                               Head(streams).filters),
                   Tail(streams))

RECURSIVE audioRefs(_, _)
audioRefs(refs, streams) ==
    IF streams = <<>> THEN refs
    ELSE audioRefs(AddRef(refs, Head(streams).inputRef), Tail(streams))

\* the referenced ids, in the iteration order of the Set the code builds
getReferencedInputs(g) == audioRefs(videoRefs(<<>>, g.videoStreams), g.audioStreams)

\* Array.prototype.findIndex: the 0-based position of the first match, or -1
getInputIndex(g, id) ==
    IF \E i \in 1..Len(g.inputs) : g.inputs[i].id = id
    THEN (CHOOSE i \in 1..Len(g.inputs) :
              /\ g.inputs[i].id = id
              /\ \A j \in 1..(i - 1) : g.inputs[j].id # id) - 1
    ELSE -1

hasVideoOutput(g) ==
    \E i \in 1..Len(g.videoStreams) : ~TruthyBool(g.videoStreams[i].disabled)

hasAudioOutput(g) ==
    \E i \in 1..Len(g.audioStreams) : ~TruthyBool(g.audioStreams[i].disabled)

\* streams.find(s => !s.disabled), where one exists
firstEnabled(streams) ==
    streams[CHOOSE i \in 1..Len(streams) :
                /\ ~TruthyBool(streams[i].disabled)
                /\ \A j \in 1..(i - 1) : TruthyBool(streams[j].disabled)]

hasOverlay(filters) == \E i \in 1..Len(filters) : filters[i].kind = "overlay"

\* a variant of the classifier that sends every graph with an input to the
\* complex compiler
requiresComplexFilterAnyInput(g) ==
    \/ Len(g.inputs) >= 1
    \/ \E i \in 1..Len(g.videoStreams) : hasOverlay(g.videoStreams[i].filters)
    \/ Len(g.videoStreams) > 1 \/ Len(g.audioStreams) > 1

requiresComplexFilter(g) ==
    \/ Len(g.inputs) > 1
    \/ \E i \in 1..Len(g.videoStreams) : hasOverlay(g.videoStreams[i].filters)
    \/ Len(g.videoStreams) > 1 \/ Len(g.audioStreams) > 1

(***************************************************************************)
(* Validator (ast/validation)                                              *)
(***************************************************************************)
\* the CRF range validateGraph accepts
CrfMin == 0

CrfMax == 63

FpsMax == 240

SampleRateMin == 8000

SampleRateMax == 192000

ValidationError(message, field) ==
    [message |-> IF TruthyStr(field)
                 THEN "Validation error in \"" \o field[1] \o "\": " \o message
                 ELSE message,
     field |-> field]

\* errors.push(new ValidationError(...)) when the condition holds
ErrIf(cond, message, field) ==
    IF cond THEN <<ValidationError(message, field)>> ELSE <<>>

BadDim(o) == IsSome(o) /\ o[1] # -1 /\ o[1] # -2 /\ o[1] <= 0

validateVideoFilter(f, inputIds) ==
    CASE f.kind = "scale" ->
            ErrIf(BadDim(f.width), "Width must be positive or -1/-2 for auto",
                  Some("scale.width"))
            \o ErrIf(BadDim(f.height), "Height must be positive or -1/-2 for auto",
                     Some("scale.height"))
      [] f.kind = "fps" ->
            ErrIf(f.value <= 0 \/ f.value > 2 * FpsMax,
                  "FPS must be between 1 and 240", Some("fps.value"))
      [] f.kind = "trim" ->
            ErrIf(IsSome(f.start) /\ f.start[1] < 0,
                  "Start time cannot be negative", Some("trim.start"))
            \o ErrIf(IsSome(f.end) /\ f.end[1] < 0,
                     "End time cannot be negative", Some("trim.end"))
            \o ErrIf(IsSome(f.start) /\ IsSome(f.end) /\ f.start[1] >= f.end[1],
                     "Start time must be before end time", Some("trim"))
            \o ErrIf(IsSome(f.duration) /\ f.duration[1] <= 0,
                     "Duration must be positive", Some("trim.duration"))
      [] f.kind = "fade" ->
            ErrIf(f.startTime < 0, "Fade start time cannot be negative",
                  Some("fade.startTime"))
            \o ErrIf(f.duration <= 0, "Fade duration must be positive",
                     Some("fade.duration"))
      [] f.kind = "overlay" ->
            ErrIf(f.inputRef \notin inputIds,
                  "Overlay references non-existent input \"" \o f.inputRef \o "\"",
                  Some("overlay.inputRef"))
      [] OTHER -> <<>>

validateAudioFilter(f) ==
    CASE f.kind = "volume" ->
            ErrIf(f.value.isNum /\ f.value.num < 0, "Volume cannot be negative",
                  Some("volume.value"))
      [] f.kind = "atrim" ->
            ErrIf(IsSome(f.start) /\ f.start[1] < 0,
                  "Start time cannot be negative", Some("atrim.start"))
            \o ErrIf(IsSome(f.end) /\ f.end[1] < 0,
                     "End time cannot be negative", Some("atrim.end"))
            \o ErrIf(IsSome(f.start) /\ IsSome(f.end) /\ f.start[1] >= f.end[1],
                     "Start time must be before end time", Some("atrim"))
      [] f.kind = "afade" ->
            ErrIf(f.startTime < 0, "Fade start time cannot be negative",
                  Some("afade.startTime"))
            \o ErrIf(f.duration <= 0, "Fade duration must be positive",
                     Some("afade.duration"))
      [] f.kind = "aresample" ->
            ErrIf(f.sampleRate <= 0, "Sample rate must be positive",
                  Some("aresample.sampleRate"))
            \o ErrIf(f.sampleRate < SampleRateMin \/ f.sampleRate > SampleRateMax,
                     "Sample rate should be between 8000 and 192000 Hz",
                     Some("aresample.sampleRate"))
      [] f.kind \in {"highpass", "lowpass"} ->
            ErrIf(f.frequency <= 0, "Frequency must be positive",
                  Some(f.kind \o ".frequency"))
      [] f.kind = "equalizer" ->
            ErrIf(f.frequency <= 0, "Frequency must be positive",
                  Some("equalizer.frequency"))
            \o ErrIf(f.width <= 0, "Width must be positive", Some("equalizer.width"))
      [] OTHER -> <<>>

\* a variant of the loop over referencedInputs that reports nothing
refErrorsNone(refs, inputIds) == <<>>

\* the loop over referencedInputs of validateGraph
RECURSIVE refErrors(_, _)
refErrors(refs, inputIds) ==
    IF refs = <<>> THEN <<>>
    ELSE ErrIf(Head(refs) \notin inputIds,
               "Referenced input \"" \o Head(refs) \o "\" does not exist", None)
         \o refErrors(Tail(refs), inputIds)

RECURSIVE videoFilterErrors(_, _)
videoFilterErrors(filters, inputIds) ==
    IF filters = <<>> THEN <<>>
    ELSE validateVideoFilter(Head(filters), inputIds)
         \o videoFilterErrors(Tail(filters), inputIds)

RECURSIVE audioFilterErrors(_)
audioFilterErrors(filters) ==
    IF filters = <<>> THEN <<>>
    ELSE validateAudioFilter(Head(filters)) \o audioFilterErrors(Tail(filters))

\* the loop over graph.videoStreams, from stream i (0-based) on
RECURSIVE videoStreamErrors(_, _, _)
videoStreamErrors(streams, i, inputIds) ==
    IF i >= Len(streams) THEN <<>>
    ELSE ErrIf(streams[i + 1].inputRef \notin inputIds,
               "Video stream " \o ToString(i) \o " references non-existent input \""
                   \o streams[i + 1].inputRef \o "\"", None)
         \o videoFilterErrors(streams[i + 1].filters, inputIds)
         \o videoStreamErrors(streams, i + 1, inputIds)

RECURSIVE audioStreamErrors(_, _, _)
audioStreamErrors(streams, i, inputIds) ==
    IF i >= Len(streams) THEN <<>>
    ELSE ErrIf(streams[i + 1].inputRef \notin inputIds,
               "Audio stream " \o ToString(i) \o " references non-existent input \""
                   \o streams[i + 1].inputRef \o "\"", None)
         \o audioFilterErrors(streams[i + 1].filters)
         \o audioStreamErrors(streams, i + 1, inputIds)

\* `!graph.output.destination`: only the empty string is falsy
NoDestination(g) ==
    g.output.destination.kind = "string" /\ g.output.destination.value = ""

\* the codec check of validateGraph
crfErrors(g) ==
    ErrIf(/\ IsSome(g.output.video)
          /\ IsSome(g.output.video[1].crf)
          /\ \/ g.output.video[1].crf[1] < CrfMin
             \/ g.output.video[1].crf[1] > CrfMax,
          "CRF must be between 0 and 63", Some("crf"))

\* a variant of validateGraph in which a warning makes the graph invalid
validateGraphStrict(g) ==
    LET inputIds == getInputIds(g)
        errors ==
            ErrIf(Len(g.inputs) = 0, "At least one input is required", None)
            \o ErrIf(NoDestination(g), "Output destination is required", None)
            \o refErrors(getReferencedInputs(g), inputIds)
            \o videoStreamErrors(g.videoStreams, 0, inputIds)
            \o audioStreamErrors(g.audioStreams, 0, inputIds)
            \o crfErrors(g)
        warnings ==
            IF Len(g.videoStreams) = 0 /\ Len(g.audioStreams) = 0
            THEN <<"No video or audio streams configured - output may be empty">>
            ELSE <<>>
    IN  [valid |-> Len(errors) = 0 /\ Len(warnings) = 0,
         errors |-> errors,
         warnings |-> warnings]

\* a variant of validateGraph that stops at the first violated check
validateGraphFirstOnly(g) ==
    LET inputIds == getInputIds(g)
        errors ==
            ErrIf(Len(g.inputs) = 0, "At least one input is required", None)
            \o ErrIf(NoDestination(g), "Output destination is required", None)
            \o refErrors(getReferencedInputs(g), inputIds)
            \o videoStreamErrors(g.videoStreams, 0, inputIds)
            \o audioStreamErrors(g.audioStreams, 0, inputIds)
            \o crfErrors(g)
    IN  [valid |-> Len(errors) = 0,
         errors |-> IF Len(errors) > 0 THEN <<errors[1]>> ELSE <<>>,
         warnings |-> <<>>]

validateGraph(g) ==
    LET inputIds == getInputIds(g)
        errors ==
            ErrIf(Len(g.inputs) = 0, "At least one input is required", None)
            \o ErrIf(NoDestination(g), "Output destination is required", None)
            \o refErrors(getReferencedInputs(g), inputIds)
            \o videoStreamErrors(g.videoStreams, 0, inputIds)
            \o audioStreamErrors(g.audioStreams, 0, inputIds)
            \o crfErrors(g)
    IN  [valid |-> Len(errors) = 0,
         errors |-> errors,
         warnings |-> IF Len(g.videoStreams) = 0 /\ Len(g.audioStreams) = 0
                      THEN <<"No video or audio streams configured - output may be empty">>
                      ELSE <<>>]

(***************************************************************************)
(* Simple compiler (compiler/index.ts)                                      *)
(***************************************************************************)
\* the value of a source or destination given as a string
IsString(v) == v.kind = "string"

\* the loop over Object.entries(options) of a codec block
RECURSIVE extraOptionArgs(_)
extraOptionArgs(entries) ==
    IF entries = <<>> THEN <<>>
    ELSE (IF Head(entries).isBool
          THEN (IF Head(entries).bool THEN <<"-" \o Head(entries).key>> ELSE <<>>)
          ELSE <<"-" \o Head(entries).key, Head(entries).value>>)
         \o extraOptionArgs(Tail(entries))

\* the loop over Object.entries(metadata)
RECURSIVE metadataArgs(_)
metadataArgs(entries) ==
    IF entries = <<>> THEN <<>>
    ELSE <<"-metadata", Head(entries).key \o "=" \o Head(entries).value>>
         \o metadataArgs(Tail(entries))

\* "-flag <n>" when the optional number is defined
FlagNum(flag, o) == IF IsSome(o) THEN <<flag, ToString(o[1])>> ELSE <<>>

\* "-flag <s>" when the optional string is truthy
FlagStr(flag, o) == IF TruthyStr(o) THEN <<flag, o[1]>> ELSE <<>>

\* the option flags and the -i token of one input; input.options?.x
simpleInputArgs(input) ==
    LET o == input.options
        opt(field) == IF IsSome(o) THEN o[1][field] ELSE None
    IN  FlagNum("-ss", opt("seekTo")) \o FlagNum("-t", opt("duration"))
        \o FlagStr("-f", opt("format")) \o FlagNum("-r", opt("frameRate"))
        \o FlagNum("-stream_loop", opt("loop"))
        \o (IF IsString(input.source) THEN <<"-i", input.source.value>>
            ELSE <<"-i", "pipe:0">>)

RECURSIVE simpleInputs(_)
simpleInputs(inputs) ==
    IF inputs = <<>> THEN <<>>
    ELSE simpleInputArgs(Head(inputs)) \o simpleInputs(Tail(inputs))

simpleGlobal(g) ==
    (IF TruthyBool(g.options.overwrite) THEN <<"-y">> ELSE <<>>)
    \o FlagStr("-loglevel", g.options.logLevel)
    \o FlagNum("-threads", g.options.threads)
    \o FlagStr("-hwaccel", g.options.hwAccel)

\* a variant of the video filter section that uses the filter-graph flag
simpleVfAsGraph(g) ==
    IF hasVideoOutput(g) /\ Len(firstEnabled(g.videoStreams).filters) > 0
    THEN <<"-filter_complex",
           serializeVideoFilterChain(firstEnabled(g.videoStreams).filters)>>
    ELSE <<>>

simpleVf(g) ==
    IF hasVideoOutput(g) /\ Len(firstEnabled(g.videoStreams).filters) > 0
    THEN LET vf == serializeVideoFilterChain(firstEnabled(g.videoStreams).filters)
         IN  IF vf # "" THEN <<"-vf", vf>> ELSE <<>>
    ELSE <<>>

simpleAf(g) ==
    IF hasAudioOutput(g) /\ Len(firstEnabled(g.audioStreams).filters) > 0
    THEN LET af == serializeAudioFilterChain(firstEnabled(g.audioStreams).filters)
         IN  IF af # "" THEN <<"-af", af>> ELSE <<>>
    ELSE <<>>

videoEncoder(codec) ==
    CASE codec = "h264" -> "libx264"
      [] codec = "h265" -> "libx265"
      [] codec = "hevc" -> "libx265"
      [] codec = "vp9" -> "libvpx-vp9"
      [] codec = "vp8" -> "libvpx"
      [] codec = "av1" -> "libaom-av1"
      [] codec = "mpeg4" -> "mpeg4"
      [] codec = "prores" -> "prores_ks"
      [] OTHER -> codec

audioEncoder(codec) ==
    CASE codec = "aac" -> "aac"
      [] codec = "mp3" -> "libmp3lame"
      [] codec = "opus" -> "libopus"
      [] codec = "vorbis" -> "libvorbis"
      [] codec = "flac" -> "flac"
      [] codec = "ac3" -> "ac3"
      [] codec = "pcm_s16le" -> "pcm_s16le"
      [] OTHER -> codec

\* the -c:v block of a configured video codec
videoCodecBlock(v) ==
    IF v.codec = "copy" THEN <<"-c:v", "copy">>
    ELSE <<"-c:v", videoEncoder(v.codec)>>
         \o FlagStr("-b:v", v.bitrate) \o FlagStr("-maxrate", v.maxBitrate)
         \o FlagStr("-bufsize", v.bufferSize) \o FlagNum("-crf", v.crf)
         \o FlagStr("-preset", v.preset) \o FlagStr("-profile:v", v.profile)
         \o FlagStr("-pix_fmt", v.pixelFormat)
         \o (IF IsSome(v.options) THEN extraOptionArgs(v.options[1]) ELSE <<>>)

\* the -c:a block of a configured audio codec
audioCodecBlock(a) ==
    IF a.codec = "copy" THEN <<"-c:a", "copy">>
    ELSE <<"-c:a", audioEncoder(a.codec)>>
         \o FlagStr("-b:a", a.bitrate)
         \o (IF TruthyNum(a.sampleRate) THEN <<"-ar", ToString(a.sampleRate[1])>>
             ELSE <<>>)
         \o (IF TruthyNum(a.channels) THEN <<"-ac", ToString(a.channels[1])>>
             ELSE <<>>)
         \o (IF IsSome(a.options) THEN extraOptionArgs(a.options[1]) ELSE <<>>)

simpleVideoCodec(g) ==
    IF IsSome(g.output.video) THEN videoCodecBlock(g.output.video[1])
    ELSE IF ~hasVideoOutput(g) THEN <<"-vn">>
    ELSE <<>>

simpleAudioCodec(g) ==
    IF IsSome(g.output.audio) THEN audioCodecBlock(g.output.audio[1])
    ELSE IF ~hasAudioOutput(g) THEN <<"-an">>
    ELSE <<>>

\* a variant of the output section that puts the container override after
\* the destination
simpleOutputFormatLast(g) ==
    (IF IsSome(g.output.metadata) THEN metadataArgs(g.output.metadata[1]) ELSE <<>>)
    \o (IF IsString(g.output.destination) THEN <<g.output.destination.value>>
        ELSE <<"pipe:1">>)
    \o FlagStr("-f", g.output.format)

\* metadata, output flags, container override and destination
simpleOutput(g) ==
    (IF IsSome(g.output.metadata) THEN metadataArgs(g.output.metadata[1]) ELSE <<>>)
    \o (IF IsSome(g.output.flags)
        THEN (IF TruthyBool(g.output.flags[1].fastStart)
              THEN <<"-movflags", "+faststart">> ELSE <<>>)
             \o (IF TruthyBool(g.output.flags[1].shortest)
                 THEN <<"-shortest">> ELSE <<>>)
        ELSE <<>>)
    \o FlagStr("-f", g.output.format)
    \o (IF IsString(g.output.destination) THEN <<g.output.destination.value>>
        ELSE <<"pipe:1">>)

compileSimple(g) ==
    simpleGlobal(g) \o simpleInputs(g.inputs) \o simpleVf(g) \o simpleAf(g)
        \o simpleVideoCodec(g) \o simpleAudioCodec(g) \o simpleOutput(g)

(***************************************************************************)
(* Complex compiler (compiler/complex-compiler)                            *)
(*                                                                         *)
(* A segment of filterParts is kept as [ins, chain, out] and rendered as   *)
(* [in]...chain[out]; the rewrite of the last segment's trailing label     *)
(* (lastPart.replace(/\[[^\]]+\]$/, "[v_out]")) replaces its out field,    *)
(* which is what the regular expression does as long as no filter          *)
(* expression holds an opening bracket.                                    *)
(***************************************************************************)
complexInputArgs(input) ==
    LET o == input.options
        opt(field) == IF IsSome(o) THEN o[1][field] ELSE None
    IN  FlagNum("-ss", opt("seekTo")) \o FlagNum("-t", opt("duration"))
        \o FlagStr("-f", opt("format")) \o FlagNum("-r", opt("frameRate"))
        \o FlagNum("-stream_loop", opt("loop"))
        \o (IF IsString(input.source) THEN <<"-i", input.source.value>>
            ELSE <<"-i", "pipe:0">>)

RECURSIVE complexInputs(_)
complexInputs(inputs) ==
    IF inputs = <<>> THEN <<>>
    ELSE complexInputArgs(Head(inputs)) \o complexInputs(Tail(inputs))

complexGlobal(g) ==
    (IF TruthyBool(g.options.overwrite) THEN <<"-y">> ELSE <<>>)
    \o FlagStr("-loglevel", g.options.logLevel)
    \o FlagNum("-threads", g.options.threads)
    \o FlagStr("-hwaccel", g.options.hwAccel)

Segment(ins, chain, out) == [ins |-> ins, chain |-> chain, out |-> out]

RECURSIVE Brackets(_)
Brackets(labels) ==
    IF labels = <<>> THEN ""
    ELSE "[" \o Head(labels) \o "]" \o Brackets(Tail(labels))

\* the text of one element of filterParts
Render(seg) == Brackets(seg.ins) \o seg.chain \o "[" \o seg.out \o "]"

RECURSIVE RenderAll(_)
RenderAll(segs) ==
    IF segs = <<>> THEN <<>> ELSE <<Render(Head(segs))>> \o RenderAll(Tail(segs))

\* a variant of the label that does not count the segments
nextLabelFixed(parts) == "v_0"

\* `v_${filterParts.length}`
nextLabel(parts) == "v_" \o ToString(Len(parts))

\* a variant of the loop that emits one segment per filter instead of
\* batching the filters between overlays
RECURSIVE walkFiltersUnbatched(_, _, _)
walkFiltersUnbatched(g, filters, st) ==
    IF filters = <<>> THEN st
    ELSE LET f == Head(filters)
             ins == IF f.kind = "overlay"
                    THEN <<st.currentLabel,
                           ToString(getInputIndex(g, f.inputRef)) \o ":v">>
                    ELSE <<st.currentLabel>>
         IN  walkFiltersUnbatched(g, Tail(filters),
                 [parts |-> Append(st.parts,
                               Segment(ins, serializeVideoFilter(f),
                                       nextLabel(st.parts))),
                  currentLabel |-> nextLabel(st.parts),
                  normalFilters |-> <<>>])

\* the for loop over the video stream's filters; st holds filterParts,
\* currentLabel and normalFilters
RECURSIVE walkFilters(_, _, _)
walkFilters(g, filters, st) ==
    IF filters = <<>> THEN st
    ELSE LET f == Head(filters)
         IN  IF f.kind = "overlay"
             THEN LET flushed ==
                          IF Len(st.normalFilters) > 0
                          THEN [parts |-> Append(st.parts,
                                          Segment(<<st.currentLabel>>,
                                                  Join(MapVideo(st.normalFilters), ","),
                                                  nextLabel(st.parts))),
                                currentLabel |-> nextLabel(st.parts),
                                normalFilters |-> <<>>]
                          ELSE st
                      overlayLabel ==
                          ToString(getInputIndex(g, f.inputRef)) \o ":v"
                  IN  walkFilters(g, Tail(filters),
                          [parts |-> Append(flushed.parts,
                                        Segment(<<flushed.currentLabel, overlayLabel>>,
                                                serializeVideoFilter(f),
                                                nextLabel(flushed.parts))),
                           currentLabel |-> nextLabel(flushed.parts),
                           normalFilters |-> <<>>])
             ELSE walkFilters(g, Tail(filters),
                      [st EXCEPT !.normalFilters = Append(@, f)])

\* a variant of the video section that keeps the last segment's v_<n> label
complexVideoKeepLabel(g) ==
    IF hasVideoOutput(g)
    THEN LET videoStream == firstEnabled(g.videoStreams)
             st == walkFilters(g, videoStream.filters,
                       [parts |-> <<>>,
                        currentLabel |->
                            ToString(getInputIndex(g, videoStream.inputRef)) \o ":v",
                        normalFilters |-> <<>>])
         IN  IF Len(st.normalFilters) > 0
             THEN [parts |-> Append(st.parts,
                                 Segment(<<st.currentLabel>>,
                                         Join(MapVideo(st.normalFilters), ","),
                                         "v_out")),
                   label |-> "v_out"]
             ELSE IF Len(st.parts) > 0
             THEN [parts |-> st.parts, label |-> "v_out"]
             ELSE [parts |-> st.parts, label |-> st.currentLabel]
    ELSE [parts |-> <<>>, label |-> ""]

\* "Process video streams": filterParts and outputVideoLabel after it
complexVideo(g) ==
    IF hasVideoOutput(g)
    THEN LET videoStream == firstEnabled(g.videoStreams)
             st == walkFilters(g, videoStream.filters,
                       [parts |-> <<>>,
                        currentLabel |->
                            ToString(getInputIndex(g, videoStream.inputRef)) \o ":v",
                        normalFilters |-> <<>>])
         IN  IF Len(st.normalFilters) > 0
             THEN [parts |-> Append(st.parts,
                                 Segment(<<st.currentLabel>>,
                                         Join(MapVideo(st.normalFilters), ","),
                                         "v_out")),
                   label |-> "v_out"]
             ELSE IF Len(st.parts) > 0
             THEN [parts |-> [st.parts EXCEPT ![Len(st.parts)].out = "v_out"],
                   label |-> "v_out"]
             ELSE [parts |-> st.parts, label |-> st.currentLabel]
    ELSE [parts |-> <<>>, label |-> ""]

\* "Process audio streams": the audio segment, if any, and outputAudioLabel
complexAudio(g) ==
    IF hasAudioOutput(g)
    THEN LET audioStream == firstEnabled(g.audioStreams)
             inputIndex == getInputIndex(g, audioStream.inputRef)
         IN  IF Len(audioStream.filters) > 0
             THEN [parts |-> <<Segment(<<ToString(inputIndex) \o ":a">>,
                                       Join(MapAudio(audioStream.filters), ","),
                                       "a_out")>>,
                   label |-> "a_out"]
             ELSE [parts |-> <<>>, label |-> ToString(inputIndex) \o ":a"]
    ELSE [parts |-> <<>>, label |-> ""]

\* filterParts once both kinds of stream are processed
filterParts(g) == complexVideo(g).parts \o complexAudio(g).parts

\* label.includes("_"): of the labels the compiler builds, the synthetic ones
\* (v_<n>, v_out, a_out) hold an underscore, the pad addresses <n>:v do not
IncludesUnderscore(label) ==
    label \in {"v_out", "a_out"} \cup {"v_" \o ToString(n) : n \in 0..(2 * MaxSize)}

\* a variant of the -map directive that wraps every label in brackets
mapArgsBracketed(has, parts, label) ==
    IF has /\ label # "" THEN <<"-map", "[" \o label \o "]">> ELSE <<>>

\* one -map directive
mapArgs(has, parts, label) ==
    IF has /\ label # ""
    THEN IF Len(parts) > 0 /\ IncludesUnderscore(label)
         THEN <<"-map", "[" \o label \o "]">>
         ELSE <<"-map", label>>
    ELSE <<>>

\* -filter_complex and the -map directives
complexFilterArgs(g) ==
    (IF Len(filterParts(g)) > 0
     THEN <<"-filter_complex", Join(RenderAll(filterParts(g)), ";")>> ELSE <<>>)
    \o mapArgs(hasVideoOutput(g), filterParts(g), complexVideo(g).label)
    \o mapArgs(hasAudioOutput(g), filterParts(g), complexAudio(g).label)

complexVideoCodec(g) ==
    IF IsSome(g.output.video) THEN videoCodecBlock(g.output.video[1])
    ELSE IF ~hasVideoOutput(g) THEN <<"-vn">>
    ELSE <<>>

complexAudioCodec(g) ==
    IF IsSome(g.output.audio) THEN audioCodecBlock(g.output.audio[1])
    ELSE IF ~hasAudioOutput(g) THEN <<"-an">>
    ELSE <<>>

\* a variant of the output section that leaves the output flags out
complexOutputNoFlags(g) ==
    (IF IsSome(g.output.metadata) THEN metadataArgs(g.output.metadata[1]) ELSE <<>>)
    \o FlagStr("-f", g.output.format)
    \o (IF IsString(g.output.destination) THEN <<g.output.destination.value>>
        ELSE <<"pipe:1">>)

complexOutput(g) ==
    (IF IsSome(g.output.metadata) THEN metadataArgs(g.output.metadata[1]) ELSE <<>>)
    \o (IF IsSome(g.output.flags)
        THEN (IF TruthyBool(g.output.flags[1].fastStart)
              THEN <<"-movflags", "+faststart">> ELSE <<>>)
             \o (IF TruthyBool(g.output.flags[1].shortest)
                 THEN <<"-shortest">> ELSE <<>>)
        ELSE <<>>)
    \o FlagStr("-f", g.output.format)
    \o (IF IsString(g.output.destination) THEN <<g.output.destination.value>>
        ELSE <<"pipe:1">>)

compileComplex(g) ==
    complexGlobal(g) \o complexInputs(g.inputs) \o complexFilterArgs(g)
        \o complexVideoCodec(g) \o complexAudioCodec(g) \o complexOutput(g)

(***************************************************************************)
(* compile (compiler/index)                                                *)
(***************************************************************************)
\* the compiler compile() hands the graph to
compilerOf(g) == IF requiresComplexFilter(g) THEN "compileComplex" ELSE "compileSimple"

\* a variant of compile that stamps the argument vector with the input-id
\* counter
compileCounted(g) == Append(compileSimple(g), ToString(inputCounter))

compile(g) ==
    IF requiresComplexFilter(g) THEN compileComplex(g) ELSE compileSimple(g)

(***************************************************************************)
(* Filter descriptors the model draws from                                 *)
(***************************************************************************)
ScaleFilter(w, h, alg, force) ==
    [kind |-> "scale", width |-> w, height |-> h, algorithm |-> alg,
     forceOriginalAspectRatio |-> force]

TrimFilter(kind, start, end, duration) ==
    [kind |-> kind, start |-> start, end |-> end, duration |-> duration]

FadeFilter(type, startTime, duration, color) ==
    [kind |-> "fade", type |-> type, startTime |-> startTime,
     duration |-> duration, color |-> color]

OverlayFilter(ref, x, y, alpha, shortest) ==
    [kind |-> "overlay", inputRef |-> ref, x |-> x, y |-> y,
     enableAlpha |-> alpha, shortest |-> shortest]

VolumeFilter(value) == [kind |-> "volume", value |-> value]

InputIds == {"input_0", "input_1"}

\* the video filters a graph of the model is built from
GraphVideoFilters ==
    {ScaleFilter(Some(1280), Some(-1), None, None)}
    \cup {OverlayFilter(ref, NumExpr(10), NumExpr(10), alpha, None) :
              ref \in InputIds, alpha \in {None, Some(TRUE)}}

\* the audio filters a graph of the model is built from
GraphAudioFilters ==
    {VolumeFilter(NumExpr(2)), TrimFilter("atrim", Some(5), Some(10), None)}

(***************************************************************************)
(* The graph as its builders change it, validateGraph and compile          *)
(***************************************************************************)
RECURSIVE CountFilters(_)
CountFilters(streams) ==
    IF streams = <<>> THEN 0
    ELSE Len(Head(streams).filters) + CountFilters(Tail(streams))

\* the number of inputs, streams and filters of a graph
Size(g) ==
    Len(g.inputs) + Len(g.videoStreams) + Len(g.audioStreams)
        + CountFilters(g.videoStreams) + CountFilters(g.audioStreams)

NoResult == [valid |-> FALSE, errors |-> <<>>, warnings |-> <<>>]

NoFilter == [kind |-> "none"]

\* the MediaChain instances of the model
ChainIds == {"a", "b"}

\* new MediaChain(): a fresh graph and no primary input
NewChain == [graph |-> createMediaGraph, primaryInputId |-> None]

ChainInit ==
    /\ inputCounter = 0
    /\ chains = [c \in ChainIds |-> NewChain]
    /\ calls = <<>>

\* runFFmpeg was not called: no listener, no process, nothing settled
NoRun ==
    [pc |-> "idle", aborted |-> FALSE, abortAt |-> "none", listening |-> FALSE,
     resolved |-> FALSE, proc |-> "none", code |-> None, outcome |-> "none"]

\* createProgressParser: an empty buffer; fed is the text received so far,
\* delivered the calls of onProgress
NewParser == [fed |-> <<>>, buffer |-> <<>>, delivered |-> <<>>]

\* the config object of the binary resolver at module load
NoConfig ==
    [ffmpegPath |-> None, ffprobePath |-> None, validated |-> FALSE,
     version |-> None]

\* no resolveFFmpeg was called, no setBinary either
BinaryInit == config = NoConfig /\ resolves = <<>> /\ binaryLog = <<>>

RunInit == again = None /\ run = NoRun /\ parser = NewParser /\ BinaryInit

\* nothing was thrown yet, no chain was touched, nothing was run
OtherInit == thrown = None /\ ChainInit /\ RunInit

Init ==
    /\ graph = createMediaGraph
    /\ phase = "building"
    /\ result = NoResult
    /\ compiler = "none"
    /\ args = <<>>
    /\ filter = NoFilter
    /\ expr = ""
    /\ OtherInit

Building == phase = "building" /\ Size(graph) < MaxSize

\* graph.inputs.push({ id, source })
AddInput(id) ==
    /\ Building
    /\ id \notin getInputIds(graph)
    /\ graph' = [graph EXCEPT !.inputs =
                    Append(@, [id |-> id, source |-> StringValue(id \o ".mp4"),
                               options |-> None])]
    /\ UNCHANGED <<phase, result, compiler, args, filter, expr, otherVars>>

\* graph.videoStreams.push({ inputRef, filters: [] })
AddVideoStream(ref) ==
    /\ Building
    /\ graph' = [graph EXCEPT !.videoStreams =
                    Append(@, [inputRef |-> ref, streamIndex |-> None,
                               filters |-> <<>>, disabled |-> None])]
    /\ UNCHANGED <<phase, result, compiler, args, filter, expr, otherVars>>

\* graph.audioStreams.push({ inputRef, filters: [] })
AddAudioStream(ref) ==
    /\ Building
    /\ graph' = [graph EXCEPT !.audioStreams =
                    Append(@, [inputRef |-> ref, streamIndex |-> None,
                               filters |-> <<>>, disabled |-> None])]
    /\ UNCHANGED <<phase, result, compiler, args, filter, expr, otherVars>>

\* addVideoFilter: the primary stream takes the filter
AddVideoFilter(f) ==
    /\ Building
    /\ Len(graph.videoStreams) > 0
    /\ graph' = [graph EXCEPT !.videoStreams[1].filters = Append(@, f)]
    /\ UNCHANGED <<phase, result, compiler, args, filter, expr, otherVars>>

\* addAudioFilter: the primary stream takes the filter
AddAudioFilter(f) ==
    /\ Building
    /\ Len(graph.audioStreams) > 0
    /\ graph' = [graph EXCEPT !.audioStreams[1].filters = Append(@, f)]
    /\ UNCHANGED <<phase, result, compiler, args, filter, expr, otherVars>>

\* audioOnly: every video stream is disabled
DisableVideo ==
    /\ phase = "building"
    /\ Len(graph.videoStreams) > 0
    /\ graph' = [graph EXCEPT !.videoStreams =
                    [i \in 1..Len(@) |-> [@[i] EXCEPT !.disabled = Some(TRUE)]]]
    /\ UNCHANGED <<phase, result, compiler, args, filter, expr, otherVars>>

\* MediaChain.mute: every audio stream is disabled
Mute ==
    /\ phase = "building"
    /\ Len(graph.audioStreams) > 0
    /\ graph' = [graph EXCEPT !.audioStreams =
                    [i \in 1..Len(@) |-> [@[i] EXCEPT !.disabled = Some(TRUE)]]]
    /\ UNCHANGED <<phase, result, compiler, args, filter, expr, otherVars>>

\* graph.output.destination = path
SetDestination(path) ==
    /\ phase = "building"
    /\ graph' = [graph EXCEPT !.output.destination = StringValue(path)]
    /\ UNCHANGED <<phase, result, compiler, args, filter, expr, otherVars>>

VideoCodecConfig(codec, crf) ==
    [codec |-> codec, bitrate |-> None, maxBitrate |-> None, bufferSize |-> None,
     crf |-> crf, preset |-> None, profile |-> None, pixelFormat |-> None,
     options |-> None]

AudioCodecConfig(codec) ==
    [codec |-> codec, bitrate |-> None, sampleRate |-> None, channels |-> None,
     options |-> None]

\* MediaChain.codec: ensureVideoCodecConfig, then the codec is set
SetCodec(codec) ==
    /\ phase = "building"
    /\ graph' = [graph EXCEPT !.output.video =
                    IF IsSome(@) THEN Some([@[1] EXCEPT !.codec = codec])
                    ELSE Some(VideoCodecConfig(codec, None))]
    /\ UNCHANGED <<phase, result, compiler, args, filter, expr, otherVars>>

\* MediaChain.audioCodec: ensureAudioCodecConfig, then the codec is set
SetAudioCodec(codec) ==
    /\ phase = "building"
    /\ graph' = [graph EXCEPT !.output.audio =
                    IF IsSome(@) THEN Some([@[1] EXCEPT !.codec = codec])
                    ELSE Some(AudioCodecConfig(codec))]
    /\ UNCHANGED <<phase, result, compiler, args, filter, expr, otherVars>>

\* validateGraph(graph)
Validate ==
    /\ phase = "building"
    /\ result' = validateGraph(graph)
    /\ phase' = "validated"
    /\ UNCHANGED <<graph, compiler, args, filter, expr, otherVars>>

\* compile(graph)
Compile ==
    /\ phase = "building"
    /\ compiler' = compilerOf(graph)
    /\ args' = compile(graph)
    /\ phase' = "compiled"
    /\ UNCHANGED <<graph, result, filter, expr, otherVars>>

Next ==
    \/ \E id \in InputIds : AddInput(id)
    \/ \E ref \in InputIds : AddVideoStream(ref)
    \/ \E ref \in InputIds : AddAudioStream(ref)
    \/ \E f \in GraphVideoFilters : AddVideoFilter(f)
    \/ \E f \in GraphAudioFilters : AddAudioFilter(f)
    \/ DisableVideo
    \/ Mute
    \/ SetDestination("output.mp4")
    \/ SetCodec("h264")
    \/ SetAudioCodec("aac")
    \/ Validate
    \/ Compile

Spec == Init /\ [][Next]_vars

(***************************************************************************)
(* The serializers applied to one filter descriptor                        *)
(***************************************************************************)
\* the characters a free-text parameter is made of: a plain one and the
\* reserved ones of the filter grammar
Chars == {"a", ":", ",", "\\", "'"}

Texts == {None} \cup {Some(t) : t \in SeqsUpTo(Chars, MaxLen)}

Dims == {None} \cup {Some(n) : n \in {-2, -1, 720, 1080, 1280, 1920}}

Times == {None} \cup {Some(n) : n \in {0, 5, 10}}

Positions == {NumExpr(0), NumExpr(10), StrExpr("W-w")}

\* the video filters the serializer is tried on, one set per kind
SerializeVideoInputs ==
    <<{ScaleFilter(w, h, alg, force) :
          w \in Dims, h \in Dims, alg \in {None, Some("lanczos")},
          force \in {None, Some("disable")}},
      {TrimFilter("trim", st, en, d) : st \in Times, en \in Times, d \in Times},
      {FadeFilter("in", 0, 2, c) : c \in Texts},
      {[kind |-> "rotate", angle |-> NumExpr(1), outputWidth |-> None,
        outputHeight |-> ow, fillColor |-> c] :
           ow \in {None, Some(StrExpr("ih"))}, c \in Texts},
      {[kind |-> "pad", width |-> NumExpr(1920), height |-> NumExpr(1080),
        x |-> x, y |-> None, color |-> c] :
           x \in {None, Some(StrExpr("(ow-iw)/2"))}, c \in Texts},
      {OverlayFilter(ref, x, y, alpha, shortest) :
           ref \in InputIds, x \in Positions, y \in Positions,
           alpha \in {None, Some(TRUE), Some(FALSE)},
           shortest \in {None, Some(TRUE)}},
      {[kind |-> "crop", width |-> NumExpr(640), height |-> StrExpr("ih/2"),
        x |-> x, y |-> x] : x \in {None, Some(NumExpr(100))}},
      {[kind |-> "fps", value |-> v, round |-> r] :
           v \in {1, 60}, r \in {None, Some("near")}},
      {[kind |-> "flip", direction |-> d] : d \in {"horizontal", "vertical"}},
      {[kind |-> "transpose", direction |-> d] : d \in 0..3},
      {[kind |-> "setsar", sar |-> "1"]},
      {[kind |-> "setdar", dar |-> "16/9"]},
      {[kind |-> "format", pixelFormats |-> <<"yuv420p", "rgb24">>]}>>

\* the audio filters the serializer is tried on, one set per kind
SerializeAudioInputs ==
    <<{TrimFilter("atrim", st, en, d) : st \in Times, en \in Times, d \in Times},
      {VolumeFilter(v) : v \in {NumExpr(2), StrExpr("-3dB")}},
      {[kind |-> "normalize", type |-> "loudnorm", targetLoudness |-> t,
        loudnessRange |-> None, truePeak |-> t] : t \in {None, Some(-16)}},
      {[kind |-> "normalize", type |-> "dynaudnorm", frameLength |-> t,
        gaussSize |-> None] : t \in {None, Some(500)}},
      {[kind |-> "afade", type |-> "out", startTime |-> 5, duration |-> 2,
        curve |-> c] : c \in {None, Some("tri")}},
      {[kind |-> "aresample", sampleRate |-> 44100]},
      {[kind |-> "channelmap", map |-> "0|1", channelLayout |-> c] :
           c \in {None, Some("stereo")}},
      {[kind |-> "channelmix", layout |-> "mono"]},
      {[kind |-> "adelay", delays |-> "500|500"]},
      {[kind |-> "equalizer", frequency |-> 1000, gain |-> 3, width |-> 200,
        widthType |-> t] : t \in {None, Some("h")}},
      {[kind |-> k, frequency |-> 200, poles |-> q, width |-> q,
        widthType |-> Some("q")] :
           k \in {"highpass", "lowpass"}, q \in {None, Some(2)}}>>

AudioKinds ==
    {"volume", "normalize", "afade", "atrim", "aresample", "channelmap",
     "channelmix", "adelay", "highpass", "lowpass", "equalizer"}

InitSerialize ==
    /\ graph = createMediaGraph
    /\ phase = "filter"
    /\ result = NoResult
    /\ compiler = "none"
    /\ args = <<>>
    /\ \/ \E i \in 1..Len(SerializeVideoInputs) : filter \in SerializeVideoInputs[i]
       \/ \E i \in 1..Len(SerializeAudioInputs) : filter \in SerializeAudioInputs[i]
    /\ expr = ""
    /\ OtherInit

\* serializeVideoFilter(filter)
SerializeVideo ==
    /\ phase = "filter"
    /\ filter.kind \notin AudioKinds
    /\ expr' = serializeVideoFilter(filter)
    /\ phase' = "serialized"
    /\ UNCHANGED <<graph, result, compiler, args, filter, otherVars>>

\* serializeAudioFilter(filter)
SerializeAudio ==
    /\ phase = "filter"
    /\ filter.kind \in AudioKinds
    /\ expr' = serializeAudioFilter(filter)
    /\ phase' = "serialized"
    /\ UNCHANGED <<graph, result, compiler, args, filter, otherVars>>

NextSerialize == SerializeVideo \/ SerializeAudio

SpecSerialize == InitSerialize /\ [][NextSerialize]_vars

(***************************************************************************)
(* validateGraph applied to one graph                                      *)
(***************************************************************************)
InputOf(id) == [id |-> id, source |-> StringValue(id \o ".mp4"), options |-> None]

StreamOf(ref) ==
    [inputRef |-> ref, streamIndex |-> None, filters |-> <<>>, disabled |-> None]

ValidateCrfs == {None} \cup {Some(n) : n \in {-1, 0, 63, 64}}

\* start and end times, negative ones included
ValidateTimes == {None, Some(-1), Some(5), Some(10)}

\* durations, zero and negative ones included
ValidateDurations == {None, Some(-5), Some(0), Some(5)}

\* the filters of the one video stream of a validated graph, one set of
\* filters per kind
ValidateVideoFilters ==
    <<{ScaleFilter(w, h, None, None) :
          w \in {None} \cup {Some(n) : n \in {-3, -2, -1, 0, 1280}},
          h \in {None, Some(0), Some(720)}},
      {[kind |-> "fps", value |-> v, round |-> None] :
          v \in {-2, 0, 1, 2, 60, 480, 481}},
      {TrimFilter("trim", st, en, d) :
          st \in ValidateTimes, en \in ValidateTimes, d \in ValidateDurations},
      {FadeFilter("in", st, d, None) : st \in {-1, 0}, d \in {-2, 0, 2}},
      {OverlayFilter(ref, NumExpr(0), NumExpr(0), None, None) :
          ref \in InputIds}>>

\* the filters of the one audio stream of a validated graph
ValidateAudioFilters ==
    <<{TrimFilter("atrim", st, en, d) :
          st \in ValidateTimes, en \in ValidateTimes, d \in ValidateDurations},
      {[kind |-> "afade", type |-> "out", startTime |-> st, duration |-> d,
        curve |-> None] : st \in {-1, 0}, d \in {-2, 0, 2}},
      {[kind |-> "aresample", sampleRate |-> r] :
          r \in {0, 7999, 8000, 44100, 192000, 192001}}>>

ValidateInputs ==
    {<<>>, <<InputOf("input_0")>>, <<InputOf("input_0"), InputOf("input_1")>>}

\* no stream, a stream without filters or a stream with the one filter f
StreamsOf(ref, filters) ==
    {<<>>, <<StreamOf(ref)>>} \cup {<<[StreamOf(ref) EXCEPT !.filters = <<f>>]>> : f \in filters}

ValidateGraph(ins, vs, as, dest, v) ==
    [createMediaGraph EXCEPT
        !.inputs = ins, !.videoStreams = vs, !.audioStreams = as,
        !.output.destination = StringValue(dest), !.output.video = v]

InitValidate ==
    /\ \E ins \in ValidateInputs, dest \in {"", "output.mp4"},
          v \in {None} \cup {Some(VideoCodecConfig("h264", crf)) : crf \in ValidateCrfs},
          i \in 1..Len(ValidateVideoFilters), j \in 1..Len(ValidateAudioFilters),
          vref \in InputIds :
          \E vs \in StreamsOf(vref, ValidateVideoFilters[i]),
             as \in StreamsOf("input_0", ValidateAudioFilters[j]) :
             graph = ValidateGraph(ins, vs, as, dest, v)
    /\ phase = "building"
    /\ result = NoResult
    /\ compiler = "none"
    /\ args = <<>>
    /\ filter = NoFilter
    /\ expr = ""
    /\ OtherInit

\* assertValid(graph): throws the first error of an invalid graph
AssertValid ==
    /\ phase = "building"
    /\ thrown' = IF validateGraph(graph).valid
                 THEN None
                 ELSE Some(validateGraph(graph).errors[1])
    /\ phase' = "asserted"
    /\ UNCHANGED <<graph, result, compiler, args, filter, expr, chainVars, runVars>>

NextValidate == Validate \/ AssertValid

SpecValidate == InitValidate /\ [][NextValidate]_vars

(***************************************************************************)
(* Properties of the classifier and the two compilers (under Spec)         *)
(***************************************************************************)
Compiled == phase = "compiled"

Valid(g) == validateGraph(g).valid

AnyOverlay(g) ==
    \E i \in 1..Len(g.videoStreams) : hasOverlay(g.videoStreams[i].filters)

\* C1: compile() hands every graph with more than one input to
\* compileComplex, and every graph with exactly one input, no overlay filter
\* and at most one stream of each kind to compileSimple.
C1_Routing ==
    Compiled =>
        /\ Len(graph.inputs) > 1 =>
              compiler = "compileComplex" /\ args = compileComplex(graph)
        /\ ( /\ Len(graph.inputs) = 1
             /\ ~AnyOverlay(graph)
             /\ Len(graph.videoStreams) <= 1
             /\ Len(graph.audioStreams) <= 1 ) =>
              compiler = "compileSimple" /\ args = compileSimple(graph)

C1_Witness ==
    /\ Compiled
    /\ Len(graph.inputs) = 2
    /\ Len(graph.videoStreams) = 1
    /\ compiler = "compileComplex"

\* C2 as stated: on a validated graph, the simple path with some video stream
\* that has filters emits -vf and no -filter_complex, and the complex path
\* with some overlay filter emits -filter_complex and no -vf.
C2_AnyStreamWithFilters ==
    (Compiled /\ Valid(graph)) =>
        /\ ( /\ compiler = "compileSimple"
             /\ \E i \in 1..Len(graph.videoStreams) :
                    Len(graph.videoStreams[i].filters) > 0 ) =>
              Contains(args, "-vf") /\ ~Contains(args, "-filter_complex")
        /\ (compiler = "compileComplex" /\ AnyOverlay(graph)) =>
              Contains(args, "-filter_complex") /\ ~Contains(args, "-vf")

\* C2 as amended: on a validated graph, the simple path emits -vf and no
\* -filter_complex when the first enabled video stream has filters, and the
\* complex path emits -filter_complex and no -vf when the first enabled video
\* stream holds an overlay filter.
C2_FilterFlagOfPath ==
    (Compiled /\ Valid(graph) /\ hasVideoOutput(graph)) =>
        /\ ( /\ compiler = "compileSimple"
             /\ Len(firstEnabled(graph.videoStreams).filters) > 0 ) =>
              Contains(args, "-vf") /\ ~Contains(args, "-filter_complex")
        /\ ( /\ compiler = "compileComplex"
             /\ hasOverlay(firstEnabled(graph.videoStreams).filters) ) =>
              Contains(args, "-filter_complex") /\ ~Contains(args, "-vf")

C2_Witness ==
    /\ Compiled
    /\ Valid(graph)
    /\ compiler = "compileSimple"
    /\ hasVideoOutput(graph)
    /\ Len(firstEnabled(graph.videoStreams).filters) > 0
    /\ ContainsPair(args, "-vf", "scale=w=1280:h=-2")

\* the graph's enabled video stream has a filter list made of one overlay
SingleOverlay(g) ==
    /\ hasVideoOutput(g)
    /\ Len(firstEnabled(g.videoStreams).filters) = 1
    /\ firstEnabled(g.videoStreams).filters[1].kind = "overlay"

\* the audio segment a -filter_complex expression ends with, if any
AudioSegmentText(g) ==
    IF hasAudioOutput(g) /\ Len(firstEnabled(g.audioStreams).filters) > 0
    THEN ";[" \o ToString(getInputIndex(g, firstEnabled(g.audioStreams).inputRef))
             \o ":a]" \o serializeAudioFilterChain(firstEnabled(g.audioStreams).filters)
             \o "[a_out]"
    ELSE ""

\* [i:v][j:v]overlay=x=<x>:y=<y><more>[v_out] for the single overlay of g
OverlaySegmentText(g, more) ==
    LET vs == firstEnabled(g.videoStreams)
        f == vs.filters[1]
    IN  "[" \o ToString(getInputIndex(g, vs.inputRef)) \o ":v]["
            \o ToString(getInputIndex(g, f.inputRef)) \o ":v]overlay=x="
            \o serializeExpr(f.x) \o ":y=" \o serializeExpr(f.y) \o more \o "[v_out]"

\* C3 as stated: a validated graph whose enabled video stream holds a single
\* overlay of input j at (x,y) compiles to a -filter_complex whose video
\* segment is exactly [i:v][j:v]overlay=x=<x>:y=<y>[v_out], mapped as [v_out].
C3_OverlaySegmentExact ==
    (Compiled /\ Valid(graph) /\ SingleOverlay(graph)) =>
        /\ ContainsPair(args, "-filter_complex",
                        OverlaySegmentText(graph, "") \o AudioSegmentText(graph))
        /\ ContainsPair(args, "-map", "[v_out]")

\* C3 as amended: the video segment is [i:v][j:v]overlay=x=<x>:y=<y>[v_out]
\* when the overlay sets neither enableAlpha nor shortest; enableAlpha adds
\* :format=auto and shortest adds :shortest=1 after the position. The map
\* directive selects [v_out] in every case.
C3_OverlaySegment ==
    (Compiled /\ Valid(graph) /\ SingleOverlay(graph)) =>
        LET f == firstEnabled(graph.videoStreams).filters[1]
            more == (IF TruthyBool(f.enableAlpha) THEN ":format=auto" ELSE "")
                    \o (IF TruthyBool(f.shortest) THEN ":shortest=1" ELSE "")
        IN  /\ ContainsPair(args, "-filter_complex",
                            OverlaySegmentText(graph, more) \o AudioSegmentText(graph))
            /\ ContainsPair(args, "-map", "[v_out]")

C3_Witness ==
    /\ Compiled
    /\ Valid(graph)
    /\ SingleOverlay(graph)
    /\ Len(graph.inputs) = 2
    /\ ContainsPair(args, "-filter_complex", "[0:v][1:v]overlay=x=10:y=10[v_out]")
    /\ ContainsPair(args, "-map", "[v_out]")

\* C4: without an enabled video stream the vector holds -vn and no -c:v
\* block, and without an enabled audio stream it holds -an and no -c:a block,
\* whatever codec configuration the output carries.
C4_DisableFlagInsteadOfCodec ==
    Compiled =>
        /\ ~hasVideoOutput(graph) =>
              Contains(args, "-vn") /\ ~Contains(args, "-c:v")
        /\ ~hasAudioOutput(graph) =>
              Contains(args, "-an") /\ ~Contains(args, "-c:a")

\* C5: a graph whose video and audio streams are all disabled compiles to a
\* vector with -vn and -an and without -vf, -af and -filter_complex.
C5_AllDisabled ==
    (Compiled /\ ~hasVideoOutput(graph) /\ ~hasAudioOutput(graph)) =>
        /\ Contains(args, "-vn")
        /\ Contains(args, "-an")
        /\ ~Contains(args, "-vf")
        /\ ~Contains(args, "-af")
        /\ ~Contains(args, "-filter_complex")

(***************************************************************************)
(* Properties of the serializers (under SpecSerialize)                     *)
(***************************************************************************)
Serialized == phase = "serialized"

\* the text of a scale dimension: the codec-safe sentinel for an automatic one
DimText(o) ==
    IF o = None \/ o = Some(-1) \/ o = Some(-2) THEN "-2" ELSE ToString(o[1])

AutoHeight == ScaleFilter(Some(1280), Some(-1), None, None)

C8_EveryTrimHasReset ==
    /\ (Serialized /\ filter.kind = "trim") =>
          expr = "trim=" \o Join(trimParts(filter), ":") \o ",setpts=PTS-STARTPTS"
    /\ (Serialized /\ filter.kind = "atrim") =>
          expr = "atrim=" \o Join(trimParts(filter), ":") \o ",asetpts=PTS-STARTPTS"

\* C8 as amended: a trim filter with at least one of start, end and duration
\* is serialized as trim=<params>,setpts=PTS-STARTPTS (atrim=<params>,
\* asetpts=PTS-STARTPTS for audio) and never as the bare trim expression; a
\* trim filter with none of them is serialized as null (anull for audio).
C8_TrimWithReset ==
    /\ (Serialized /\ filter.kind = "trim") =>
          /\ expr = IF Len(trimParts(filter)) > 0
                    THEN "trim=" \o Join(trimParts(filter), ":")
                             \o ",setpts=PTS-STARTPTS"
                    ELSE "null"
          /\ expr # "trim=" \o Join(trimParts(filter), ":")
    /\ (Serialized /\ filter.kind = "atrim") =>
          /\ expr = IF Len(trimParts(filter)) > 0
                    THEN "atrim=" \o Join(trimParts(filter), ":")
                             \o ",asetpts=PTS-STARTPTS"
                    ELSE "anull"
          /\ expr # "atrim=" \o Join(trimParts(filter), ":")

C8_Witness ==
    /\ Serialized
    /\ filter.kind = "trim"
    /\ filter = TrimFilter("trim", Some(5), Some(10), None)
    /\ expr = "trim=start=5:end=10,setpts=PTS-STARTPTS"

\* the characters the filter grammar reserves, and the quote
Reserved == {":", ",", "\\", "'"}

\* every reserved character preceded by a backslash
RECURSIVE BackslashEscaped(_)
BackslashEscaped(chars) ==
    IF chars = <<>> THEN <<>>
    ELSE (IF Head(chars) \in Reserved THEN <<"\\", Head(chars)>> ELSE <<Head(chars)>>)
         \o BackslashEscaped(Tail(chars))

\* one level of backslash escapes removed
RECURSIVE Unescape(_)
Unescape(chars) ==
    IF chars = <<>> THEN <<>>
    ELSE IF Head(chars) = "\\" /\ Len(chars) >= 2
    THEN <<chars[2]>> \o Unescape(SubSeq(chars, 3, Len(chars)))
    ELSE <<Head(chars)>> \o Unescape(Tail(chars))

\* the free-text parameter of a fade, rotate or pad filter
FreeText(f) ==
    CASE f.kind = "fade" -> f.color
      [] f.kind = "rotate" -> f.fillColor
      [] f.kind = "pad" -> f.color

\* the serialized filter up to the value of its free-text parameter
FreeTextPrefix(f) ==
    CASE f.kind = "fade" ->
            "fade=t=" \o f.type \o ":st=" \o ToString(f.startTime)
                \o ":d=" \o ToString(f.duration) \o ":c="
      [] f.kind = "rotate" ->
            "rotate=a=" \o serializeExpr(f.angle)
                \o (IF IsSome(f.outputWidth)
                    THEN ":ow=" \o serializeExpr(f.outputWidth[1]) ELSE "")
                \o (IF IsSome(f.outputHeight)
                    THEN ":oh=" \o serializeExpr(f.outputHeight[1]) ELSE "")
                \o ":c="
      [] f.kind = "pad" ->
            "pad=w=" \o serializeExpr(f.width) \o ":h=" \o serializeExpr(f.height)
                \o (IF IsSome(f.x) THEN ":x=" \o serializeExpr(f.x[1]) ELSE "")
                \o (IF IsSome(f.y) THEN ":y=" \o serializeExpr(f.y[1]) ELSE "")
                \o ":color="

\* C9: the free-text parameter of a fade, rotate or pad filter is embedded
\* with every colon, comma, backslash and single quote backslash-escaped, and
\* removing one level of backslash escapes from the embedded value gives the
\* parameter back.
C9_EscapeRoundTrip ==
    (Serialized /\ filter.kind \in {"fade", "rotate", "pad"}
        /\ TruthyText(FreeText(filter))) =>
        LET text == FreeText(filter)[1]
            embedded == escapeValue(text)
        IN  /\ expr = FreeTextPrefix(filter) \o Str(embedded)
            /\ embedded = BackslashEscaped(text)
            /\ Unescape(embedded) = text

(***************************************************************************)
(* Properties of the validator (under SpecValidate)                        *)
(***************************************************************************)
Validated == phase = "validated"

NoStreams(g) == Len(g.videoStreams) = 0 /\ Len(g.audioStreams) = 0

\* the output carries no CRF outside [0, 63]
CrfInRange(g) ==
    \/ g.output.video = None
    \/ g.output.video[1].crf = None
    \/ g.output.video[1].crf[1] \in 0..63

\* C10 as stated: zero inputs give valid=false with a first error about the
\* input; at least one input, a destination and no streams give valid=true
\* with a warning; valid is true exactly when there is no error.
C10_ValidateScenario ==
    Validated =>
        /\ Len(graph.inputs) = 0 =>
              /\ ~result.valid
              /\ Len(result.errors) > 0
              /\ result.errors[1].message = "At least one input is required"
        /\ (Len(graph.inputs) >= 1 /\ ~NoDestination(graph) /\ NoStreams(graph)) =>
              result.valid /\ Len(result.warnings) > 0
        /\ result.valid <=> Len(result.errors) = 0

\* C10 as amended: zero inputs give valid=false with a first error about the
\* input; at least one input, a destination, no streams and no CRF outside
\* [0,63] give valid=true with a warning; valid is true exactly when there is
\* no error, so a warning never makes a graph invalid.
C10_Validate ==
    Validated =>
        /\ Len(graph.inputs) = 0 =>
              /\ ~result.valid
              /\ Len(result.errors) > 0
              /\ result.errors[1].message = "At least one input is required"
        /\ ( /\ Len(graph.inputs) >= 1
             /\ ~NoDestination(graph)
             /\ NoStreams(graph)
             /\ CrfInRange(graph) ) =>
              result.valid /\ Len(result.warnings) > 0
        /\ result.valid <=> Len(result.errors) = 0

C10_Witness ==
    /\ Validated
    /\ Len(graph.inputs) = 1
    /\ ~NoDestination(graph)
    /\ NoStreams(graph)
    /\ result.valid
    /\ Len(result.warnings) > 0

(***************************************************************************)
(* Properties of validateGraph and assertValid (under SpecValidate)        *)
(***************************************************************************)
Asserted == phase = "asserted"

HasMessage(errors, message) ==
    \E i \in 1..Len(errors) : errors[i].message = message

HasField(errors, field) ==
    \E i \in 1..Len(errors) : errors[i].field = Some(field)

ReferencedMessage(ref) == "Referenced input \"" \o ref \o "\" does not exist"

StreamMessage(type, i, ref) ==
    type \o " stream " \o ToString(i) \o " references non-existent input \""
        \o ref \o "\""

VideoFields ==
    {"scale.width", "scale.height", "fps.value", "trim.start", "trim.end",
     "trim", "trim.duration", "fade.startTime", "fade.duration",
     "overlay.inputRef"}

AudioFields ==
    {"volume.value", "atrim.start", "atrim.end", "atrim", "afade.startTime",
     "afade.duration", "aresample.sampleRate"}

\* the position of an error's check in the documented order: inputs,
\* destination, references, video streams, audio streams, codec
CheckOf(e) ==
    CASE e.message = "At least one input is required" -> 1
      [] e.message = "Output destination is required" -> 2
      [] \E r \in InputIds : e.message = ReferencedMessage(r) -> 3
      [] \/ \E r \in InputIds : e.message = StreamMessage("Video", 0, r)
         \/ \E fld \in VideoFields : e.field = Some(fld) -> 4
      [] \/ \E r \in InputIds : e.message = StreamMessage("Audio", 0, r)
         \/ \E fld \in AudioFields : e.field = Some(fld) -> 5
      [] e.field = Some("crf") -> 6
      [] OTHER -> 0

\* C11: validateGraph accumulates: each of the input, destination,
\* reference, stream-reference and codec checks contributes its error exactly
\* when it is violated, whatever the other checks found, and the errors come
\* in the order inputs, destination, references, video streams, audio
\* streams, codec. assertValid throws errors[0] of validateGraph when the
\* graph is invalid, returns normally when it is valid, and leaves the graph
\* unchanged.
C11_AccumulateAndAssert ==
    /\ [](Validated =>
            LET errors == result.errors
                ids == getInputIds(graph)
            IN  /\ Len(graph.inputs) = 0
                     <=> HasMessage(errors, "At least one input is required")
                /\ NoDestination(graph)
                     <=> HasMessage(errors, "Output destination is required")
                /\ \A r \in InputIds :
                     (Contains(getReferencedInputs(graph), r) /\ r \notin ids)
                        <=> HasMessage(errors, ReferencedMessage(r))
                /\ \A r \in InputIds :
                     /\ ( /\ Len(graph.videoStreams) > 0
                          /\ graph.videoStreams[1].inputRef = r
                          /\ r \notin ids )
                           <=> HasMessage(errors, StreamMessage("Video", 0, r))
                     /\ ( /\ Len(graph.audioStreams) > 0
                          /\ graph.audioStreams[1].inputRef = r
                          /\ r \notin ids )
                           <=> HasMessage(errors, StreamMessage("Audio", 0, r))
                /\ ~CrfInRange(graph) <=> HasField(errors, "crf")
                /\ \A i \in 1..Len(errors) : CheckOf(errors[i]) > 0
                /\ \A i \in 1..(Len(errors) - 1) :
                     CheckOf(errors[i]) <= CheckOf(errors[i + 1]))
    /\ [](Asserted =>
            thrown = IF validateGraph(graph).valid
                     THEN None
                     ELSE Some(validateGraph(graph).errors[1]))
    /\ [][phase' = "asserted" => graph' = graph]_vars

\* an invalid graph violating four checks at once, and its first error thrown
C11_Witness ==
    /\ Asserted
    /\ Len(graph.inputs) = 0
    /\ NoDestination(graph)
    /\ ~CrfInRange(graph)
    /\ Len(graph.videoStreams) = 1
    /\ Len(validateGraph(graph).errors) >= 5
    /\ thrown = Some(ValidationError("At least one input is required", None))

\* the input references of a graph: of its streams and of its overlay filters
StreamRefs(streams) == {streams[i].inputRef : i \in 1..Len(streams)}

OverlayRefs(g) ==
    {r \in InputIds :
        \E i \in 1..Len(g.videoStreams) :
            \E k \in 1..Len(g.videoStreams[i].filters) :
                /\ g.videoStreams[i].filters[k].kind = "overlay"
                /\ g.videoStreams[i].filters[k].inputRef = r}

AllRefs(g) == StreamRefs(g.videoStreams) \cup StreamRefs(g.audioStreams) \cup OverlayRefs(g)

OverlayMessage(ref) ==
    "Validation error in \"overlay.inputRef\": Overlay references non-existent input \""
        \o ref \o "\""

\* an error about an input reference
IsReferenceError(e) ==
    \E r \in InputIds :
        e.message \in {ReferencedMessage(r), StreamMessage("Video", 0, r),
                       StreamMessage("Audio", 0, r), OverlayMessage(r)}

\* C12: when a stream's inputRef or an overlay filter's inputRef is not the
\* id of an input of the graph, validateGraph returns valid=false with errors
\* naming that identifier (the referenced-input error, and the stream or
\* overlay error); when every reference resolves there is no reference error.
C12_ReferencesResolve ==
    Validated =>
        LET errors == result.errors
            ids == getInputIds(graph)
        IN  /\ \A r \in AllRefs(graph) \ ids :
                  /\ ~result.valid
                  /\ HasMessage(errors, ReferencedMessage(r))
                  /\ r \in StreamRefs(graph.videoStreams)
                        => HasMessage(errors, StreamMessage("Video", 0, r))
                  /\ r \in StreamRefs(graph.audioStreams)
                        => HasMessage(errors, StreamMessage("Audio", 0, r))
                  /\ r \in OverlayRefs(graph) => HasMessage(errors, OverlayMessage(r))
            /\ AllRefs(graph) \subseteq ids =>
                  \A i \in 1..Len(errors) : ~IsReferenceError(errors[i])

\* an overlay of an input that is not in the graph, on a stream that resolves
C12_Witness ==
    /\ Validated
    /\ getInputIds(graph) = {"input_0"}
    /\ StreamRefs(graph.videoStreams) = {"input_0"}
    /\ OverlayRefs(graph) = {"input_1"}
    /\ ~result.valid
    /\ HasMessage(result.errors, OverlayMessage("input_1"))

\* the filters of all streams of a graph satisfying a condition on one filter
AnyFilter(streams, Cond(_)) ==
    \E i \in 1..Len(streams) :
        \E k \in 1..Len(streams[i].filters) : Cond(streams[i].filters[k])

\* a trim whose start is not before its end, or whose duration is not positive
BadTrim(f) ==
    /\ f.kind \in {"trim", "atrim"}
    /\ \/ IsSome(f.start) /\ IsSome(f.end) /\ f.start[1] >= f.end[1]
       \/ IsSome(f.duration) /\ f.duration[1] <= 0

\* a fade whose duration is not positive
BadFade(f) == f.kind \in {"fade", "afade"} /\ f.duration <= 0

\* C13: a graph holding a trim or an audio trim with start >= end or with a
\* duration <= 0, or a fade or an audio fade with a duration <= 0, is
\* reported invalid by validateGraph.
C13_TrimFadeOrdering ==
    Validated =>
        /\ AnyFilter(graph.videoStreams, BadTrim) => ~result.valid
        /\ AnyFilter(graph.videoStreams, BadFade) => ~result.valid
        /\ AnyFilter(graph.audioStreams, BadTrim) => ~result.valid
        /\ AnyFilter(graph.audioStreams, BadFade) => ~result.valid

\* the one filter of the first video or audio stream is of the kind
VideoFilterIs(kind) ==
    /\ Len(graph.videoStreams) > 0
    /\ Len(graph.videoStreams[1].filters) > 0
    /\ graph.videoStreams[1].filters[1].kind = kind

AudioFilterIs(kind) ==
    /\ Len(graph.audioStreams) > 0
    /\ Len(graph.audioStreams[1].filters) > 0
    /\ graph.audioStreams[1].filters[1].kind = kind

\* a scale dimension in the documented range: positive, -1 or -2 (or absent)
DimInRange(o) == o = None \/ o[1] > 0 \/ o[1] \in {-1, -2}

\* C14: validateGraph rejects a value exactly when it is outside its
\* documented range: a scale dimension that is neither positive nor -1/-2, an
\* fps outside [1,240] (held in halves: outside 2..480), a sample rate
\* outside [8000,192000], a CRF outside [0,63]; a rejected value makes the
\* graph invalid.
C14_NumericRanges ==
    Validated =>
        LET errors == result.errors
        IN  /\ VideoFilterIs("scale") =>
                  /\ HasField(errors, "scale.width")
                        <=> ~DimInRange(graph.videoStreams[1].filters[1].width)
                  /\ HasField(errors, "scale.height")
                        <=> ~DimInRange(graph.videoStreams[1].filters[1].height)
            /\ VideoFilterIs("fps") =>
                  (HasField(errors, "fps.value")
                      <=> graph.videoStreams[1].filters[1].value \notin 2..480)
            /\ AudioFilterIs("aresample") =>
                  (HasField(errors, "aresample.sampleRate")
                      <=> graph.audioStreams[1].filters[1].sampleRate
                              \notin 8000..192000)
            /\ HasField(errors, "crf") <=> ~CrfInRange(graph)
            /\ \A fld \in {"scale.width", "scale.height", "fps.value",
                           "aresample.sampleRate", "crf"} :
                  HasField(errors, fld) => ~result.valid

(***************************************************************************)
(* MediaChain: inputs, overlays, output settings and the terminal calls    *)
(***************************************************************************)
\* the variables the MediaChain operations leave alone
graphVars == <<graph, phase, result, compiler, args, filter, expr, thrown, runVars>>

\* `input_${inputCounter}`, the id generateInputId returns
generateInputId == "input_" \o ToString(inputCounter)

\* a variant of input that gives every input its own default streams
chainInputOwnStreams(ch, id, source) ==
    [graph |-> [ch.graph EXCEPT
                   !.inputs = Append(@, [id |-> id, source |-> StringValue(source),
                                         options |-> None]),
                   !.videoStreams = Append(@, StreamOf(id)),
                   !.audioStreams = Append(@, StreamOf(id))],
     primaryInputId |-> IF ch.primaryInputId = None THEN Some(id)
                        ELSE ch.primaryInputId]

\* MediaChain.input: the input is pushed; the first input becomes primary
\* and gets a default video and audio stream
chainInput(ch, id, source) ==
    LET g == [ch.graph EXCEPT !.inputs =
                 Append(@, [id |-> id, source |-> StringValue(source),
                            options |-> None])]
    IN  IF ch.primaryInputId = None
        THEN [graph |-> [g EXCEPT !.videoStreams = Append(@, StreamOf(id)),
                                  !.audioStreams = Append(@, StreamOf(id))],
              primaryInputId |-> Some(id)]
        ELSE [graph |-> g, primaryInputId |-> ch.primaryInputId]

\* addVideoFilterInternal: a video stream on the primary input is created
\* when there is none; without a primary input the call throws
addVideoFilterInternal(ch, f) ==
    LET g == IF Len(ch.graph.videoStreams) = 0 /\ IsSome(ch.primaryInputId)
             THEN [ch.graph EXCEPT !.videoStreams =
                      Append(@, StreamOf(ch.primaryInputId[1]))]
             ELSE ch.graph
    IN  IF Len(g.videoStreams) = 0
        THEN ch
        ELSE [ch EXCEPT !.graph = [g EXCEPT !.videoStreams[1].filters = Append(@, f)]]

\* MediaChain.overlay(source, {x: 10, y: 10}): the overlay source becomes an
\* input, then the overlay filter is added
chainOverlay(ch, id, source) ==
    addVideoFilterInternal(
        [ch EXCEPT !.graph.inputs =
            Append(@, [id |-> id, source |-> StringValue(source), options |-> None])],
        OverlayFilter(id, NumExpr(10), NumExpr(10), None, None))

\* the Error pipe() and toBuffer() throw when no container format is set
FormatError ==
    [message |-> "Container format must be specified for stream output",
     field |-> None]

\* a call of the model: the operation, the chain, where it stands, the steps
\* it took, the error it failed with and whether the graph it saw was valid
Call(op, c, pc, trace, error, g) ==
    [op |-> op, chain |-> c, pc |-> pc, trace |-> trace, error |-> error,
     valid |-> validateGraph(g).valid]

\* a variant of assertValid-then-compile that compiles whatever assertValid
\* found
checkedCompileAnyway(op, c, g, pc) ==
    Call(op, c, pc, <<"assertValid", "compile">>, None, g)

\* assertValid(graph); compile(graph): the steps of toArgs and the first
\* steps of execute
checkedCompile(op, c, g, pc) ==
    IF validateGraph(g).valid
    THEN Call(op, c, pc, <<"assertValid", "compile">>, None, g)
    ELSE Call(op, c, "failed", <<"assertValid">>,
              Some(validateGraph(g).errors[1]), g)

\* execute: assertValid, compile, then runFFmpeg, which starts by resolving
\* the binary
execute(op, c, g) ==
    LET call == checkedCompile(op, c, g, "resolving")
    IN  IF call.pc = "failed" THEN call
        ELSE [call EXCEPT !.trace = Append(@, "runFFmpeg")]

CanCall == Len(calls) < MaxCalls

\* chain.input("in.mp4")
Input(c) ==
    /\ inputCounter < MaxCounter
    /\ Size(chains[c].graph) < MaxSize
    /\ chains' = [chains EXCEPT ![c] = chainInput(@, generateInputId, "in.mp4")]
    /\ inputCounter' = inputCounter + 1
    /\ UNCHANGED <<calls, graphVars>>

\* chain.overlay("over.mp4", {x: 10, y: 10})
Overlay(c) ==
    /\ inputCounter < MaxCounter
    /\ Size(chains[c].graph) < MaxSize
    /\ chains' = [chains EXCEPT ![c] = chainOverlay(@, generateInputId, "over.mp4")]
    /\ inputCounter' = inputCounter + 1
    /\ UNCHANGED <<calls, graphVars>>

\* chain.scale(1280, 720)
Scale(c) ==
    /\ Size(chains[c].graph) < MaxSize
    /\ chains' = [chains EXCEPT ![c] =
           addVideoFilterInternal(@, ScaleFilter(Some(1280), Some(720), None, None))]
    /\ UNCHANGED <<inputCounter, calls, graphVars>>

\* the exported generateInputId(), called by the library's user
GenerateInputId ==
    /\ inputCounter < MaxCounter
    /\ inputCounter' = inputCounter + 1
    /\ UNCHANGED <<chains, calls, graphVars>>

\* the exported resetInputCounter()
ResetInputCounter ==
    /\ inputCounter > 0
    /\ inputCounter' = 0
    /\ UNCHANGED <<chains, calls, graphVars>>

\* chain.container(format)
Container(c) ==
    /\ chains[c].graph.output.format = None
    /\ chains' = [chains EXCEPT ![c].graph.output.format = Some("mp4")]
    /\ UNCHANGED <<inputCounter, calls, graphVars>>

\* chain.toArgs()
ToArgs(c) ==
    /\ CanCall
    /\ calls' = Append(calls, checkedCompile("toArgs", c, chains[c].graph, "done"))
    /\ UNCHANGED <<inputCounter, chains, graphVars>>

\* chain.save(path): the destination is set, then execute runs up to the
\* first await of runFFmpeg
Save(c) ==
    /\ CanCall
    /\ LET g == [chains[c].graph EXCEPT !.output.destination = StringValue("out.mp4")]
       IN  /\ chains' = [chains EXCEPT ![c].graph = g]
           /\ calls' = Append(calls, execute("save", c, g))
    /\ UNCHANGED <<inputCounter, graphVars>>

\* chain.pipe(stream): the destination is set, the format is required, then
\* execute
Pipe(c) ==
    /\ CanCall
    /\ LET g == [chains[c].graph EXCEPT !.output.destination = StreamValue("stream")]
       IN  /\ chains' = [chains EXCEPT ![c].graph = g]
           /\ calls' = Append(calls,
                  IF g.output.format = None
                  THEN Call("pipe", c, "failed", <<>>, Some(FormatError), g)
                  ELSE execute("pipe", c, g))
    /\ UNCHANGED <<inputCounter, graphVars>>

\* chain.toBuffer() up to its first await, the import of node:stream
ToBuffer(c) ==
    /\ CanCall
    /\ calls' = Append(calls, Call("toBuffer", c, "importing", <<>>, None,
                                   chains[c].graph))
    /\ UNCHANGED <<inputCounter, chains, graphVars>>

\* toBuffer after the import: the format is required, the destination is
\* set, then execute
ToBufferResume(i) ==
    /\ i \in 1..Len(calls)
    /\ calls[i].pc = "importing"
    /\ LET c == calls[i].chain
           g == [chains[c].graph EXCEPT !.output.destination = StreamValue("stream")]
       IN  IF chains[c].graph.output.format = None
           THEN /\ calls' = [calls EXCEPT ![i] =
                       Call("toBuffer", c, "failed", <<>>, Some(FormatError),
                            chains[c].graph)]
                /\ UNCHANGED chains
           ELSE /\ chains' = [chains EXCEPT ![c].graph = g]
                /\ calls' = [calls EXCEPT ![i] = execute("toBuffer", c, g)]
    /\ UNCHANGED <<inputCounter, graphVars>>

\* runFFmpeg after the binary was resolved: the process is spawned
Spawn(i) ==
    /\ i \in 1..Len(calls)
    /\ calls[i].pc = "resolving"
    /\ calls' = [calls EXCEPT ![i].pc = "running", ![i].trace = Append(@, "spawn")]
    /\ UNCHANGED <<inputCounter, chains, graphVars>>

\* the process closes and the call settles
Close(i) ==
    /\ i \in 1..Len(calls)
    /\ calls[i].pc = "running"
    /\ calls' = [calls EXCEPT ![i].pc = "done", ![i].trace = Append(@, "close")]
    /\ UNCHANGED <<inputCounter, chains, graphVars>>

InitChain ==
    /\ graph = createMediaGraph
    /\ phase = "chain"
    /\ result = NoResult
    /\ compiler = "none"
    /\ args = <<>>
    /\ filter = NoFilter
    /\ expr = ""
    /\ OtherInit

\* the chain the overlay, the output settings and the terminal calls are
\* followed on; the other chain only takes inputs
Main == "a"

NextChain ==
    \/ \E c \in ChainIds : Input(c)
    \/ Overlay(Main)
    \/ Scale(Main)
    \/ GenerateInputId
    \/ ResetInputCounter
    \/ Container(Main)
    \/ ToArgs(Main)
    \/ Save(Main)
    \/ Pipe(Main)
    \/ ToBuffer(Main)
    \/ \E i \in 1..MaxCalls : ToBufferResume(i)
    \/ \E i \in 1..MaxCalls : Spawn(i)
    \/ \E i \in 1..MaxCalls : Close(i)

SpecChain == InitChain /\ [][NextChain]_vars

(***************************************************************************)
(* Properties of the MediaChain calls (under SpecChain)                    *)
(***************************************************************************)
\* the position of a step in the trace of a call, 0 when it was not taken
StepAt(call, step) ==
    IF Contains(call.trace, step)
    THEN CHOOSE k \in 1..Len(call.trace) : call.trace[k] = step
    ELSE 0

\* compile and the spawn come only after assertValid returned normally
ValidatedFirst(call) ==
    /\ Contains(call.trace, "compile") =>
          /\ call.valid
          /\ StepAt(call, "assertValid") > 0
          /\ StepAt(call, "assertValid") < StepAt(call, "compile")
    /\ Contains(call.trace, "runFFmpeg") =>
          /\ Contains(call.trace, "compile")
          /\ StepAt(call, "compile") < StepAt(call, "runFFmpeg")
    /\ Contains(call.trace, "spawn") =>
          /\ Contains(call.trace, "runFFmpeg")
          /\ StepAt(call, "runFFmpeg") < StepAt(call, "spawn")

\* the call ran its synchronous part on a graph that is not valid
SawInvalid(call) == call.pc # "importing" /\ ~call.valid

NeverCompiled(call) ==
    /\ ~Contains(call.trace, "compile")
    /\ ~Contains(call.trace, "runFFmpeg")
    /\ ~Contains(call.trace, "spawn")
    /\ call.pc = "failed"

Running(c) == {i \in 1..Len(calls) : calls[i].chain = c /\ calls[i].pc = "running"}

\* C18: at most one process spawned by the calls on a chain is running at
\* any time.
C18_OneProcessPerChain == \A c \in ChainIds : Cardinality(Running(c)) <= 1

\* C20: no two inputs of a graph carry the same id, so getInputIndex maps
\* every input's id to that input's position.
C20_UniqueInputIds ==
    \A c \in ChainIds :
        LET g == chains[c].graph
        IN  /\ \A i, j \in 1..Len(g.inputs) :
                  i # j => g.inputs[i].id # g.inputs[j].id
            /\ \A i \in 1..Len(g.inputs) : getInputIndex(g, g.inputs[i].id) = i - 1

(***************************************************************************)
(* compile applied twice to one graph                                      *)
(***************************************************************************)
\* the graphs compiled twice: up to two inputs, a video stream without
\* filter, scaled or overlaid, an audio stream, a video codec
CompileGraphs ==
    {ValidateGraph(ins, vs, as, "output.mp4", v) :
        ins \in ValidateInputs,
        vs \in UNION {StreamsOf(ref, {ScaleFilter(Some(1280), Some(720), None, None),
                                      OverlayFilter("input_1", NumExpr(0), NumExpr(0),
                                                    None, None)}) : ref \in InputIds},
        as \in StreamsOf("input_0", {[kind |-> "aresample", sampleRate |-> 44100]}),
        v \in {None, Some(VideoCodecConfig("h264", Some(23)))}}

InitCompile ==
    /\ graph \in CompileGraphs
    /\ phase = "building"
    /\ result = NoResult
    /\ compiler = "none"
    /\ args = <<>>
    /\ filter = NoFilter
    /\ expr = ""
    /\ OtherInit

\* a second compile(graph) of the graph compiled before
CompileAgain ==
    /\ phase = "compiled"
    /\ again' = Some(compile(graph))
    /\ phase' = "recompiled"
    /\ UNCHANGED <<graph, result, compiler, args, filter, expr, thrown, chainVars,
                   run, parser, binaryVars>>

NextCompile == Compile \/ CompileAgain \/ GenerateInputId \/ ResetInputCounter

SpecCompile == InitCompile /\ [][NextCompile]_vars

ParserChars == {"F", "1", "2", "\r", "\n"}

IsDigit(ch) == ch \in {"1", "2"}

\* parseInt of the digits s starts with, continuing from the value n
RECURSIVE parseInt(_, _)
parseInt(s, n) ==
    IF s = <<>> \/ ~IsDigit(Head(s)) THEN n
    ELSE parseInt(Tail(s), 10 * n + (IF Head(s) = "1" THEN 1 ELSE 2))

\* \s*(\d+) at the start of s: the white space of a line is the carriage
\* return; 0 when no digit follows it
RECURSIVE spaceDigits(_)
spaceDigits(s) ==
    IF s = <<>> THEN 0
    ELSE IF Head(s) = "\r" THEN spaceDigits(Tail(s))
    ELSE parseInt(s, 0)

\* line.match(/frame=\s*(\d+)/): the count of the first match, 0 without one
RECURSIVE frameMatch(_)
frameMatch(line) ==
    IF line = <<>> THEN 0
    ELSE IF Head(line) = "F" /\ spaceDigits(Tail(line)) > 0
         THEN spaceDigits(Tail(line))
         ELSE frameMatch(Tail(line))

\* parseProgressLine: a record only for a line with frames > 0
parseProgressLine(line) ==
    IF ~Contains(line, "F") THEN None
    ELSE IF frameMatch(line) > 0 THEN Some([frames |-> frameMatch(line)])
    ELSE None

\* buffer.split(/\r?\n/), cur being the piece collected so far
RECURSIVE splitLines(_, _)
splitLines(s, cur) ==
    IF s = <<>> THEN <<cur>>
    ELSE IF Head(s) = "\n" THEN <<cur>> \o splitLines(Tail(s), <<>>)
    ELSE IF Head(s) = "\r" /\ Len(s) >= 2 /\ s[2] = "\n"
         THEN <<cur>> \o splitLines(Tail(Tail(s)), <<>>)
    ELSE splitLines(Tail(s), Append(cur, Head(s)))

\* buffer.split("\r")
RECURSIVE splitCR(_, _)
splitCR(s, cur) ==
    IF s = <<>> THEN <<cur>>
    ELSE IF Head(s) = "\r" THEN <<cur>> \o splitCR(Tail(s), <<>>)
    ELSE splitCR(Tail(s), Append(cur, Head(s)))

\* all pieces but the last
Front(pieces) == SubSeq(pieces, 1, Len(pieces) - 1)

Last(pieces) == pieces[Len(pieces)]

\* the loop over the lines: onProgress for every line that parses
RECURSIVE deliver(_)
deliver(lines) ==
    IF lines = <<>> THEN <<>>
    ELSE parseProgressLine(Head(lines)) \o deliver(Tail(lines))

\* the function createProgressParser returns, applied to one chunk
progressParser(p, chunk) ==
    LET lines == splitLines(p.buffer \o chunk, <<>>)
        rest == Last(lines)
        crLines == splitCR(rest, <<>>)
    IN  IF Contains(rest, "\r")
        THEN [fed |-> p.fed \o chunk,
              buffer |-> Last(crLines),
              delivered |-> p.delivered \o deliver(Front(lines))
                                \o deliver(Front(crLines))]
        ELSE [fed |-> p.fed \o chunk,
              buffer |-> rest,
              delivered |-> p.delivered \o deliver(Front(lines))]

\* the chunks of at most n characters
RECURSIVE Chunks(_)
Chunks(n) ==
    IF n = 0 THEN {}
    ELSE {<<ch>> : ch \in ParserChars}
            \cup Chunks(n - 1)
            \cup {Append(c, ch) : c \in Chunks(n - 1), ch \in ParserChars}

(***************************************************************************)
(* runFFmpeg (utils/process): one invocation with an AbortSignal           *)
(***************************************************************************)
\* cleanup(): proc.kill("SIGKILL") when there is a process not yet killed
cleanup(r) == IF r.proc = "alive" THEN [r EXCEPT !.proc = "killed"] ELSE r

handleAbort(r) ==
    IF ~r.resolved
    THEN [cleanup(r) EXCEPT !.resolved = TRUE, !.outcome = "AbortError",
                            !.pc = "settled"]
    ELSE r

\* runFFmpeg(options) up to its first await
RunFFmpeg ==
    /\ run.pc = "idle"
    /\ run' = IF run.aborted
              THEN [run EXCEPT !.pc = "settled", !.outcome = "AbortError"]
              ELSE [run EXCEPT !.pc = "resolving"]
    /\ UNCHANGED <<graph, phase, result, compiler, args, filter, expr, thrown,
                   chainVars, binaryVars, again, parser>>

\* controller.abort(): the signal is aborted and its listeners, registered
\* once, are called
Abort ==
    /\ ~run.aborted
    /\ LET r == [run EXCEPT !.aborted = TRUE, !.abortAt = run.pc]
       IN  run' = IF run.listening
                  THEN handleAbort([r EXCEPT !.listening = FALSE])
                  ELSE r
    /\ UNCHANGED <<graph, phase, result, compiler, args, filter, expr, thrown,
                   chainVars, binaryVars, again, parser>>

\* resolveFFmpeg() settles: runFFmpeg rejects with its error, or registers
\* the abort listener and spawns the process
BinaryResolved(found) ==
    /\ run.pc = "resolving"
    /\ run' = IF found
              THEN [run EXCEPT !.pc = "running", !.listening = TRUE,
                               !.proc = "alive"]
              ELSE [run EXCEPT !.pc = "settled", !.outcome = "FFmpegNotFoundError"]
    /\ UNCHANGED <<graph, phase, result, compiler, args, filter, expr, thrown,
                   chainVars, binaryVars, again, parser>>

\* the "data" handler of stderr: the chunk goes to the progress parser
Data(chunk) ==
    /\ run.proc \in {"alive", "exited", "killed"}
    /\ Len(parser.fed) + Len(chunk) <= MaxText
    /\ parser' = progressParser(parser, chunk)
    /\ UNCHANGED <<graph, phase, result, compiler, args, filter, expr, thrown,
                   chainVars, binaryVars, again, run>>

\* the process ends by itself with an exit code
Exit(code) ==
    /\ run.proc = "alive"
    /\ run' = [run EXCEPT !.proc = "exited", !.code = Some(code)]
    /\ UNCHANGED <<graph, phase, result, compiler, args, filter, expr, thrown,
                   chainVars, binaryVars, again, parser>>

\* the "error" handler: the process could not be spawned, or could not be
\* killed
ProcError ==
    /\ \/ run.proc = "alive" /\ parser.fed = <<>>
       \/ run.proc = "killed"
    /\ run' = IF ~run.resolved
              THEN [run EXCEPT !.proc = "failed", !.resolved = TRUE,
                               !.listening = FALSE, !.pc = "settled",
                               !.outcome = "ExecutionError"]
              ELSE [run EXCEPT !.proc = "failed"]
    /\ UNCHANGED <<graph, phase, result, compiler, args, filter, expr, thrown,
                   chainVars, binaryVars, again, parser>>

\* a "close" handler that does not test resolved
ProcCloseUnguarded ==
    /\ run.proc \in {"exited", "killed", "failed"}
    /\ run' = [run EXCEPT !.proc = "closed", !.resolved = TRUE,
                          !.listening = FALSE, !.pc = "settled",
                          !.outcome = IF run.code = Some(0) THEN "resolved"
                                      ELSE "FFmpegError"]
    /\ UNCHANGED <<graph, phase, result, compiler, args, filter, expr, thrown,
                   chainVars, binaryVars, again, parser>>

\* the "close" handler: the streams of the process are closed, after its
\* exit, its kill or its failure to spawn
ProcClose ==
    /\ run.proc \in {"exited", "killed", "failed"}
    /\ run' = IF ~run.resolved
              THEN [run EXCEPT !.proc = "closed", !.resolved = TRUE,
                               !.listening = FALSE, !.pc = "settled",
                               !.outcome = IF run.code = Some(0) THEN "resolved"
                                           ELSE "FFmpegError"]
              ELSE [run EXCEPT !.proc = "closed"]
    /\ UNCHANGED <<graph, phase, result, compiler, args, filter, expr, thrown,
                   chainVars, binaryVars, again, parser>>

InitRun ==
    /\ graph = createMediaGraph
    /\ phase = "run"
    /\ result = NoResult
    /\ compiler = "none"
    /\ args = <<>>
    /\ filter = NoFilter
    /\ expr = ""
    /\ OtherInit

NextRun ==
    \/ RunFFmpeg
    \/ Abort
    \/ \E found \in BOOLEAN : BinaryResolved(found)
    \/ \E chunk \in Chunks(MaxText) : Data(chunk)
    \/ \E code \in {0, 1} : Exit(code)
    \/ ProcError
    \/ ProcClose

SpecRun == InitRun /\ [][NextRun]_vars

(***************************************************************************)
(* Properties of runFFmpeg and the progress parser (under SpecRun)         *)
(***************************************************************************)
\* the signal fired before the promise of runFFmpeg settled
AbortedInTime == run.abortAt \in {"idle", "resolving", "running"}

\* C17: when the signal fires before the close event is handled (before the
\* call, while the binary is resolved, or while the process runs), no
\* process is left running, the operation never resolves, and it settles
\* with AbortError.
C17_CancellationWins ==
    AbortedInTime =>
        /\ run.proc # "alive"
        /\ run.outcome # "resolved"
        /\ run.pc = "settled" => run.outcome = "AbortError"

\* the records a fresh parser delivers for the text fed as one chunk
OneChunk(text) ==
    IF text = <<>> THEN <<>>
    ELSE progressParser(NewParser, text).delivered

\* C19: whatever the chunks the text arrived in, the records delivered are
\* those delivered for the same text fed as one chunk.
C19_ChunkIndependent == parser.delivered = OneChunk(parser.fed)

(***************************************************************************)
(* compileSimple and compileComplex applied to one graph                   *)
(***************************************************************************)
\* every option of an input set
InputOptions ==
    [seekTo |-> Some(5), duration |-> Some(10), format |-> Some("mp4"),
     frameRate |-> Some(30), loop |-> Some(1)]

\* only the options -ss and -r of an input set
SeekOptions ==
    [seekTo |-> Some(5), duration |-> None, format |-> None,
     frameRate |-> Some(30), loop |-> None]

\* the input lists handed to the compilers: none, one, two; with and without
\* options; a stream as source
SectionInputs ==
    {<<>>,
     <<InputOf("input_0")>>,
     <<[InputOf("input_0") EXCEPT !.options = Some(InputOptions)]>>,
     <<[InputOf("input_0") EXCEPT !.options = Some(SeekOptions)],
       InputOf("input_1")>>,
     <<[InputOf("input_0") EXCEPT !.source = StreamValue("stdin")],
       [InputOf("input_1") EXCEPT !.options = Some(InputOptions)]>>}

\* the filters of the video stream: two that are batched, an overlay of the
\* second input and an overlay of an input no graph has
SectionVideoFilters ==
    {ScaleFilter(Some(1280), Some(720), None, None),
     TrimFilter("trim", Some(5), Some(10), None),
     OverlayFilter("input_1", NumExpr(0), NumExpr(0), None, None),
     OverlayFilter("input_9", NumExpr(0), NumExpr(0), None, None)}

\* the video streams: none, one on an input (or on none of the graph's) with
\* up to MaxFilters filters, a disabled one, a disabled one before an enabled
SectionVideoStreams ==
    {<<>>, <<[StreamOf("input_0") EXCEPT !.disabled = Some(TRUE)]>>}
    \cup {<<[StreamOf(ref) EXCEPT !.filters = fs]>> :
             ref \in {"input_0", "input_9"},
             fs \in SeqsUpTo(SectionVideoFilters, MaxFilters)}
    \cup {<<[StreamOf("input_0") EXCEPT !.disabled = Some(TRUE)],
            [StreamOf("input_1") EXCEPT !.filters = fs]>> :
             fs \in SeqsUpTo(SectionVideoFilters, 1)}

SectionAudioStreams ==
    {<<>>,
     <<[StreamOf("input_0") EXCEPT !.disabled = Some(TRUE)]>>,
     <<StreamOf("input_0")>>,
     <<[StreamOf("input_0") EXCEPT !.filters = <<VolumeFilter(NumExpr(2))>>]>>,
     <<[StreamOf("input_1") EXCEPT !.filters =
            <<VolumeFilter(NumExpr(2)),
              [kind |-> "aresample", sampleRate |-> 44100]>>]>>}

\* the output: only a destination; codecs, metadata, flags and container set
\* with a stream as destination; copy codecs with one flag
SectionOutputs ==
    {[createMediaGraph.output EXCEPT !.destination = StringValue("output.mp4")],
     [destination |-> StreamValue("stdout"),
      format |-> Some("matroska"),
      video |-> Some([VideoCodecConfig("h264", Some(23)) EXCEPT
                          !.preset = Some("fast")]),
      audio |-> Some([AudioCodecConfig("mp3") EXCEPT !.bitrate = Some("128k")]),
      metadata |-> Some(<<[key |-> "title", value |-> "t"],
                          [key |-> "artist", value |-> "a"]>>),
      flags |-> Some([fastStart |-> Some(TRUE), shortest |-> Some(TRUE)])],
     [destination |-> StringValue("output.mp4"),
      format |-> None,
      video |-> Some(VideoCodecConfig("copy", None)),
      audio |-> Some(AudioCodecConfig("copy")),
      metadata |-> None,
      flags |-> Some([fastStart |-> None, shortest |-> Some(TRUE)])]}

SectionOptions ==
    {createMediaGraph.options,
     [overwrite |-> Some(FALSE), logLevel |-> Some("error"),
      threads |-> Some(4), hwAccel |-> Some("cuda")]}

InitCompilers ==
    /\ \E ins \in SectionInputs, vs \in SectionVideoStreams,
          as \in SectionAudioStreams, out \in SectionOutputs,
          opts \in SectionOptions :
          graph = [inputs |-> ins, videoStreams |-> vs, audioStreams |-> as,
                   output |-> out, options |-> opts]
    /\ phase = "building"
    /\ result = NoResult
    /\ compiler = "none"
    /\ args = <<>>
    /\ filter = NoFilter
    /\ expr = ""
    /\ OtherInit

\* compileSimple(graph)
CompileSimple ==
    /\ phase = "building"
    /\ compiler' = "compileSimple"
    /\ args' = compileSimple(graph)
    /\ phase' = "compiled"
    /\ UNCHANGED <<graph, result, filter, expr, otherVars>>

\* compileComplex(graph)
CompileComplex ==
    /\ phase = "building"
    /\ compiler' = "compileComplex"
    /\ args' = compileComplex(graph)
    /\ phase' = "compiled"
    /\ UNCHANGED <<graph, result, filter, expr, otherVars>>

\* the other compiler applied to the graph one compiler was applied to
CompileOther ==
    /\ phase = "compiled"
    /\ again' = Some(IF compiler = "compileSimple" THEN compileComplex(graph)
                     ELSE compileSimple(graph))
    /\ phase' = "both"
    /\ UNCHANGED <<graph, result, compiler, args, filter, expr, thrown, chainVars,
                   run, parser, binaryVars>>

NextCompilers == CompileSimple \/ CompileComplex \/ CompileOther

SpecCompilers == InitCompilers /\ [][NextCompilers]_vars

(***************************************************************************)
(* Properties of the argument vectors (under SpecCompilers)                *)
(***************************************************************************)
HasSimple ==
    \/ compiler = "compileSimple" /\ phase \in {"compiled", "both"}
    \/ compiler = "compileComplex" /\ phase = "both"

HasComplex ==
    \/ compiler = "compileComplex" /\ phase \in {"compiled", "both"}
    \/ compiler = "compileSimple" /\ phase = "both"

\* the vector compileSimple returned, the vector compileComplex returned
SimpleVector == IF compiler = "compileSimple" THEN args ELSE again[1]

ComplexVector == IF compiler = "compileComplex" THEN args ELSE again[1]

GlobalFlags == <<"-y", "-loglevel", "-threads", "-hwaccel">>

InputFlags == <<"-ss", "-t", "-f", "-r", "-stream_loop", "-i">>

VideoCodecFlags ==
    {"-c:v", "-b:v", "-maxrate", "-bufsize", "-crf", "-preset", "-profile:v",
     "-pix_fmt", "-vn"}

AudioCodecFlags == {"-c:a", "-b:a", "-ar", "-ac", "-an"}

Range(seq) == {seq[i] : i \in 1..Len(seq)}

\* the position of a token in a list of flags
IndexOf(seq, tok) == CHOOSE i \in 1..Len(seq) : seq[i] = tok

\* the positions of the -i tokens, and the k-th of them
IPositions(a) == {i \in 1..Len(a) : a[i] = "-i"}

KthI(a, k) ==
    CHOOSE i \in IPositions(a) : Cardinality({j \in IPositions(a) : j <= i}) = k

\* the section a flag at position i belongs to; -f is an input option before
\* an -i and the container override after the last; 0 for a value
SectionRank(a, i) ==
    CASE a[i] \in Range(GlobalFlags) -> 1
      [] a[i] \in Range(InputFlags) \ {"-f"} -> 2
      [] a[i] = "-f" -> IF \E j \in IPositions(a) : j > i THEN 2 ELSE 9
      [] a[i] = "-vf" -> 3
      [] a[i] = "-af" -> 4
      [] a[i] \in VideoCodecFlags -> 5
      [] a[i] \in AudioCodecFlags -> 6
      [] a[i] = "-metadata" -> 7
      [] a[i] \in {"-movflags", "-shortest"} -> 8
      [] OTHER -> 0

FlagPositions(a) == {i \in 1..Len(a) : SectionRank(a, i) > 0}

\* the option flags the compiler emits for an input
OptionFlags(input) ==
    IF input.options = None THEN {}
    ELSE {InputFlags[k] : k \in {k \in 1..5 :
              LET o == input.options[1]
              IN  CASE k = 1 -> IsSome(o.seekTo)
                    [] k = 2 -> IsSome(o.duration)
                    [] k = 3 -> TruthyStr(o.format)
                    [] k = 4 -> IsSome(o.frameRate)
                    [] k = 5 -> IsSome(o.loop)}}

SourceToken(input) ==
    IF IsString(input.source) THEN input.source.value ELSE "pipe:0"

DestinationToken(g) ==
    IF IsString(g.output.destination) THEN g.output.destination.value
    ELSE "pipe:1"

\* the positions between the previous input's source and the k-th -i
InputSegment(a, k) ==
    (IF k = 1 THEN 1 ELSE KthI(a, k - 1) + 2)..(KthI(a, k) - 1)

\* C21: compileSimple emits global flags, then per input its option flags
\* followed by its -i <source>, then -vf, -af, the video codec block or -vn,
\* the audio codec block or -an, the -metadata pairs, the output flags, the
\* -f container override, and last the destination.
C21_SimpleSectionOrder ==
    HasSimple =>
        LET a == SimpleVector
        IN  /\ Len(a) >= 1
            /\ a[Len(a)] = DestinationToken(graph)
            /\ \A i, j \in FlagPositions(a) :
                  i < j => SectionRank(a, i) <= SectionRank(a, j)
            /\ \A i, j \in 1..Len(a) :
                  (i < j /\ a[i] \in Range(GlobalFlags) /\ a[j] \in Range(GlobalFlags))
                      => IndexOf(GlobalFlags, a[i]) < IndexOf(GlobalFlags, a[j])
            /\ Cardinality(IPositions(a)) = Len(graph.inputs)
            /\ \A k \in 1..Len(graph.inputs) :
                  /\ a[KthI(a, k) + 1] = SourceToken(graph.inputs[k])
                  /\ {a[i] : i \in InputSegment(a, k)} \cap Range(InputFlags)
                         = OptionFlags(graph.inputs[k])
                  /\ \A i, j \in InputSegment(a, k) :
                        (i < j /\ a[i] \in Range(InputFlags)
                               /\ a[j] \in Range(InputFlags))
                            => IndexOf(InputFlags, a[i]) < IndexOf(InputFlags, a[j])
            /\ TruthyStr(graph.output.format) =>
                  /\ Len(a) >= 3
                  /\ a[Len(a) - 2] = "-f"
                  /\ a[Len(a) - 1] = graph.output.format[1]

\* compileSimple was applied to a graph with two inputs, input options,
\* filters on both streams, codecs, metadata, flags and a container
C21_Witness ==
    /\ compiler = "compileSimple"
    /\ phase = "compiled"
    /\ Len(graph.inputs) = 2
    /\ \A tok \in {"-loglevel", "-ss", "-vf", "-af", "-c:v", "-c:a", "-metadata",
                   "-movflags", "-f"} : Contains(args, tok)
    /\ args[Len(args)] = "pipe:1"

FilterSectionFlags == {"-vf", "-af", "-filter_complex", "-map"}

\* the positions of the filter section's flags and of their values
FilterPositions(a) ==
    {i \in 1..Len(a) : a[i] \in FilterSectionFlags
                          \/ (i > 1 /\ a[i - 1] \in FilterSectionFlags)}

SetMax(S) == CHOOSE x \in S : \A y \in S : y <= x

SetMin(S) == CHOOSE x \in S : \A y \in S : x <= y

\* the last position of the input section: the source of the last -i
InputsEnd(a) == IF IPositions(a) = {} THEN 0 ELSE SetMax(IPositions(a)) + 1

\* the tokens up to the source of the last -i
InputsPrefix(a) == SubSeq(a, 1, InputsEnd(a))

\* the vector without its filter section
OutsideFilters(a) ==
    IF FilterPositions(a) = {} THEN a
    ELSE SubSeq(a, 1, SetMin(FilterPositions(a)) - 1)
             \o SubSeq(a, SetMax(FilterPositions(a)) + 1, Len(a))

\* the filter section is one run of tokens right after the last input, or,
\* without an input, right after the global flags
FiltersAfterInputs(a) ==
    FilterPositions(a) # {} =>
        LET first == SetMin(FilterPositions(a))
        IN  /\ FilterPositions(a) = first..SetMax(FilterPositions(a))
            /\ IPositions(a) # {} => first = InputsEnd(a) + 1
            /\ IPositions(a) = {} =>
                  \A i \in 1..Len(a) :
                      /\ a[i] \in Range(GlobalFlags) => i < first
                      /\ i < first =>
                            \/ a[i] \in Range(GlobalFlags)
                            \/ i > 1 /\ a[i - 1] \in Range(GlobalFlags) \ {"-y"}

\* C22: the vectors of compileSimple and compileComplex for one graph have
\* the same tokens up to the last -i <source> and the same tokens from the
\* video codec block to the destination; between them compileSimple has only
\* -vf/-af pairs and compileComplex only -filter_complex/-map pairs.
C22_CompilersAgreeOutsideFilters ==
    phase = "both" =>
        LET sv == SimpleVector
            cv == ComplexVector
        IN  /\ FiltersAfterInputs(sv)
            /\ FiltersAfterInputs(cv)
            /\ InputsPrefix(sv) = InputsPrefix(cv)
            /\ OutsideFilters(sv) = OutsideFilters(cv)
            /\ \A i \in 1..Len(sv) :
                  sv[i] \in FilterSectionFlags => sv[i] \in {"-vf", "-af"}
            /\ \A i \in 1..Len(cv) :
                  cv[i] \in FilterSectionFlags => cv[i] \in {"-filter_complex", "-map"}

\* both compilers were applied to a graph with two inputs, filters, codecs,
\* metadata and output flags
C22_Witness ==
    /\ phase = "both"
    /\ Len(graph.inputs) = 2
    /\ Contains(SimpleVector, "-vf")
    /\ Contains(ComplexVector, "-filter_complex")
    /\ Contains(ComplexVector, "-map")
    /\ \A tok \in {"-c:v", "-metadata", "-movflags", "-f"} :
          Contains(SimpleVector, tok) /\ Contains(ComplexVector, tok)

\* the filter list cut into its maximal runs of non-overlay filters and its
\* overlays, in list order; cur is the run being collected
RECURSIVE Runs(_, _)
Runs(filters, cur) ==
    LET flush == IF cur = <<>> THEN <<>>
                 ELSE <<[overlay |-> FALSE, filters |-> cur]>>
    IN  IF filters = <<>> THEN flush
        ELSE IF Head(filters).kind = "overlay"
        THEN flush \o <<[overlay |-> TRUE, filters |-> <<Head(filters)>>]>>
                   \o Runs(Tail(filters), <<>>)
        ELSE Runs(Tail(filters), Append(cur, Head(filters)))

\* the filters of the stream the compiler works on
EnabledVideoFilters(g) ==
    IF hasVideoOutput(g) THEN firstEnabled(g.videoStreams).filters ELSE <<>>

EnabledAudioFilters(g) ==
    IF hasAudioOutput(g) THEN firstEnabled(g.audioStreams).filters ELSE <<>>

\* the -filter_complex value the segments spell; no flag without a segment
EmitsSegments(a, segs) ==
    IF segs = <<>> THEN ~Contains(a, "-filter_complex")
    ELSE ContainsPair(a, "-filter_complex", Join(RenderAll(segs), ";"))

\* C23: for a validated graph, each maximal run of non-overlay filters of the
\* enabled video stream is one segment with the run's filters comma-joined in
\* order, each overlay is one segment with the second input <targetIndex>:v,
\* the segments are emitted in list order, and the audio stream gives no
\* segment without filters and one segment [<i>:a]...[a_out] with filters.
C23_BatchingKeepsOrder ==
    (HasComplex /\ Valid(graph)) =>
        LET runs == Runs(EnabledVideoFilters(graph), <<>>)
            vsegs == complexVideo(graph).parts
            asegs == complexAudio(graph).parts
        IN  /\ Len(vsegs) = Len(runs)
            /\ \A k \in 1..Len(runs) :
                  IF runs[k].overlay
                  THEN /\ Len(vsegs[k].ins) = 2
                       /\ vsegs[k].ins[2] =
                             ToString(getInputIndex(graph,
                                 runs[k].filters[1].inputRef)) \o ":v"
                       /\ vsegs[k].chain = serializeVideoFilter(runs[k].filters[1])
                  ELSE /\ Len(vsegs[k].ins) = 1
                       /\ vsegs[k].chain = Join(MapVideo(runs[k].filters), ",")
            /\ IF EnabledAudioFilters(graph) = <<>> THEN asegs = <<>>
               ELSE asegs =
                      <<Segment(<<ToString(getInputIndex(graph,
                                     firstEnabled(graph.audioStreams).inputRef))
                                   \o ":a">>,
                                Join(MapAudio(EnabledAudioFilters(graph)), ","),
                                "a_out")>>
            /\ EmitsSegments(ComplexVector, vsegs \o asegs)

\* compileComplex was applied to a validated graph whose video stream has a
\* run of two filters before an overlay and whose audio stream has filters
C23_Witness ==
    /\ HasComplex
    /\ Valid(graph)
    /\ Len(EnabledVideoFilters(graph)) = 3
    /\ EnabledVideoFilters(graph)[1].kind = "scale"
    /\ EnabledVideoFilters(graph)[2].kind = "trim"
    /\ EnabledVideoFilters(graph)[3].kind = "overlay"
    /\ Len(EnabledAudioFilters(graph)) = 2
    /\ Len(complexVideo(graph).parts) = 2
    /\ Contains(ComplexVector, "-filter_complex")

\* the values of the -map directives of a vector, in order
RECURSIVE MapValues(_)
MapValues(a) ==
    IF Len(a) < 2 THEN <<>>
    ELSE IF Head(a) = "-map" THEN <<a[2]>> \o MapValues(Tail(Tail(a)))
    ELSE MapValues(Tail(a))

\* the pad address of the input a stream refers to
RawPad(g, stream, suffix) == ToString(getInputIndex(g, stream.inputRef)) \o suffix

\* the segments of the emitted expression whose output label is the label
ProducersOf(g, label) ==
    {k \in 1..Len(filterParts(g)) : filterParts(g)[k].out = label}

\* the -map value of a stream: its raw pad without filters, else the
\* bracketed label, which one segment must produce
ExpectedMap(g, has, filters, pad, label) ==
    IF ~has THEN <<>>
    ELSE IF filters = <<>> THEN <<pad>>
    ELSE <<"[" \o label \o "]">>

\* C24: a -map value of compileComplex is bracketed exactly when it is a
\* synthetic label, a bracketed label is the output label of exactly one
\* emitted segment, and a stream without filters is mapped by its raw pad
\* <inputIndex>:v or <inputIndex>:a with no segment emitted for it.
C24_MapBrackets ==
    HasComplex =>
        LET vf == EnabledVideoFilters(graph)
            af == EnabledAudioFilters(graph)
            vpad == IF hasVideoOutput(graph)
                    THEN RawPad(graph, firstEnabled(graph.videoStreams), ":v")
                    ELSE ""
            apad == IF hasAudioOutput(graph)
                    THEN RawPad(graph, firstEnabled(graph.audioStreams), ":a")
                    ELSE ""
        IN  /\ MapValues(ComplexVector) =
                  ExpectedMap(graph, hasVideoOutput(graph), vf, vpad, "v_out")
                      \o ExpectedMap(graph, hasAudioOutput(graph), af, apad, "a_out")
            /\ EmitsSegments(ComplexVector, filterParts(graph))
            /\ vf # <<>> => Cardinality(ProducersOf(graph, "v_out")) = 1
            /\ af # <<>> => Cardinality(ProducersOf(graph, "a_out")) = 1
            /\ vf = <<>> => complexVideo(graph).parts = <<>>
            /\ af = <<>> => complexAudio(graph).parts = <<>>

\* compileComplex mapped a filtered video stream by its label and an
\* unfiltered audio stream by its raw pad
C24_Witness ==
    /\ HasComplex
    /\ Len(EnabledVideoFilters(graph)) = 2
    /\ hasAudioOutput(graph)
    /\ EnabledAudioFilters(graph) = <<>>
    /\ MapValues(ComplexVector) = <<"[v_out]", "0:a">>

\* a stream or an overlay of the streams the compiler works on names an
\* input the graph does not have
DanglingRef(g) ==
    \/ /\ hasVideoOutput(g)
       /\ \/ getInputIndex(g, firstEnabled(g.videoStreams).inputRef) = -1
          \/ \E k \in 1..Len(EnabledVideoFilters(g)) :
                /\ EnabledVideoFilters(g)[k].kind = "overlay"
                /\ getInputIndex(g, EnabledVideoFilters(g)[k].inputRef) = -1
    \/ /\ hasAudioOutput(g)
       /\ getInputIndex(g, firstEnabled(g.audioStreams).inputRef) = -1

\* the pad addresses built from the index of a missing input
MissingPads == {"-1:v", "-1:a"}

\* C25: for a graph with a stream or overlay reference to a missing input,
\* compileComplex returns no argument vector whose -map values or segment
\* inputs hold a pad address built from the missing index -1.
C25_FailsLoudly ==
    (HasComplex /\ DanglingRef(graph)) =>
        /\ \A i \in 1..Len(MapValues(ComplexVector)) :
              MapValues(ComplexVector)[i] \notin MissingPads
        /\ \A k \in 1..Len(filterParts(graph)) :
              \A l \in 1..Len(filterParts(graph)[k].ins) :
                  filterParts(graph)[k].ins[l] \notin MissingPads

\* C26: in the expression compileComplex emits, the output labels of the
\* segments are pairwise distinct, the first video segment consumes the raw
\* pad <inputIndex>:v of the video stream, every later video segment consumes
\* the output label of the video segment before it, and the last video
\* segment's output label is v_out.
C26_LabelsChain ==
    HasComplex =>
        LET segs == filterParts(graph)
            vsegs == complexVideo(graph).parts
        IN  /\ EmitsSegments(ComplexVector, segs)
            /\ \A i, j \in 1..Len(segs) : i # j => segs[i].out # segs[j].out
            /\ vsegs # <<>> =>
                  /\ vsegs[1].ins[1] =
                        RawPad(graph, firstEnabled(graph.videoStreams), ":v")
                  /\ \A k \in 2..Len(vsegs) : vsegs[k].ins[1] = vsegs[k - 1].out
                  /\ vsegs[Len(vsegs)].out = "v_out"

\* compileComplex emitted three video segments and an audio segment
C26_Witness ==
    /\ HasComplex
    /\ Len(complexVideo(graph).parts) = 3
    /\ Len(complexAudio(graph).parts) = 1
    /\ Len(EnabledVideoFilters(graph)) = 3
    /\ EnabledVideoFilters(graph)[2].kind = "scale"
    /\ complexVideo(graph).parts[3].ins[1] = "v_1"
    /\ Contains(ComplexVector, "-filter_complex")

(***************************************************************************)
(* The builder methods of MediaChain, with a log of the calls              *)
(***************************************************************************)
\* addAudioFilterInternal: an audio stream on the primary input is created
\* when there is none; without a primary input the call throws
addAudioFilterInternal(ch, f) ==
    LET g == IF Len(ch.graph.audioStreams) = 0 /\ IsSome(ch.primaryInputId)
             THEN [ch.graph EXCEPT !.audioStreams =
                      Append(@, StreamOf(ch.primaryInputId[1]))]
             ELSE ch.graph
    IN  IF Len(g.audioStreams) = 0
        THEN ch
        ELSE [ch EXCEPT !.graph = [g EXCEPT !.audioStreams[1].filters = Append(@, f)]]

\* addVideoFilterInternal / addAudioFilterInternal throw for this chain
NoStreamFor(ch, streams) == Len(streams) = 0 /\ ch.primaryInputId = None

\* MediaChain.mute: every audio stream is disabled
chainMute(ch) ==
    [ch EXCEPT !.graph.audioStreams =
        [i \in 1..Len(@) |-> [@[i] EXCEPT !.disabled = Some(TRUE)]]]

\* an entry of the log: the method, the chain, whether it threw, and the
\* inputs and filters the caller asked for
LogEntry(op, c, threw, inputs, video, audio) ==
    [op |-> op, chain |-> c, threw |-> threw, inputs |-> inputs,
     video |-> video, audio |-> audio]

CanBuild == Len(calls) < MaxBuild

\* chain.input("in.mp4")
BuildInput(c) ==
    /\ CanBuild
    /\ inputCounter < MaxCounter
    /\ chains' = [chains EXCEPT ![c] = chainInput(@, generateInputId, "in.mp4")]
    /\ inputCounter' = inputCounter + 1
    /\ calls' = Append(calls, LogEntry("input", c, FALSE, 1, <<>>, <<>>))
    /\ UNCHANGED graphVars

\* chain.overlay("over.mp4", {x: 10, y: 10})
BuildOverlay(c) ==
    /\ CanBuild
    /\ inputCounter < MaxCounter
    /\ chains' = [chains EXCEPT ![c] = chainOverlay(@, generateInputId, "over.mp4")]
    /\ inputCounter' = inputCounter + 1
    /\ calls' = Append(calls,
           LogEntry("overlay", c, NoStreamFor(chains[c], chains[c].graph.videoStreams),
                    1, <<OverlayFilter(generateInputId, NumExpr(10), NumExpr(10),
                                       None, None)>>, <<>>))
    /\ UNCHANGED graphVars

\* chain.scale(1280, 720)
BuildScale(c) ==
    /\ CanBuild
    /\ LET f == ScaleFilter(Some(1280), Some(720), None, None)
       IN  /\ chains' = [chains EXCEPT ![c] = addVideoFilterInternal(@, f)]
           /\ calls' = Append(calls,
                  LogEntry("scale", c,
                           NoStreamFor(chains[c], chains[c].graph.videoStreams),
                           0, <<f>>, <<>>))
    /\ UNCHANGED <<inputCounter, graphVars>>

\* chain.volume(2)
BuildVolume(c) ==
    /\ CanBuild
    /\ LET f == VolumeFilter(NumExpr(2))
       IN  /\ chains' = [chains EXCEPT ![c] = addAudioFilterInternal(@, f)]
           /\ calls' = Append(calls,
                  LogEntry("volume", c,
                           NoStreamFor(chains[c], chains[c].graph.audioStreams),
                           0, <<>>, <<f>>))
    /\ UNCHANGED <<inputCounter, graphVars>>

\* chain.trim({start: 5, end: 10}): a trim on the video stream, then an atrim
\* on the audio stream
BuildTrim(c) ==
    /\ CanBuild
    /\ LET v == TrimFilter("trim", Some(5), Some(10), None)
           a == TrimFilter("atrim", Some(5), Some(10), None)
           threw == NoStreamFor(chains[c], chains[c].graph.videoStreams)
       IN  /\ chains' = [chains EXCEPT ![c] =
                  IF threw THEN @
                  ELSE addAudioFilterInternal(addVideoFilterInternal(@, v), a)]
           /\ calls' = Append(calls, LogEntry("trim", c, threw, 0, <<v>>, <<a>>))
    /\ UNCHANGED <<inputCounter, graphVars>>

\* chain.mute()
BuildMute(c) ==
    /\ CanBuild
    /\ chains' = [chains EXCEPT ![c] = chainMute(@)]
    /\ calls' = Append(calls, LogEntry("mute", c, FALSE, 0, <<>>, <<>>))
    /\ UNCHANGED <<inputCounter, graphVars>>

\* chain.container("mp4")
BuildContainer(c) ==
    /\ CanBuild
    /\ chains' = [chains EXCEPT ![c].graph.output.format = Some("mp4")]
    /\ calls' = Append(calls, LogEntry("container", c, FALSE, 0, <<>>, <<>>))
    /\ UNCHANGED <<inputCounter, graphVars>>

InitBuilder ==
    /\ graph = createMediaGraph
    /\ phase = "builder"
    /\ result = NoResult
    /\ compiler = "none"
    /\ args = <<>>
    /\ filter = NoFilter
    /\ expr = ""
    /\ OtherInit

NextBuilder ==
    \/ \E c \in ChainIds : BuildInput(c)
    \/ BuildOverlay(Main)
    \/ BuildScale(Main)
    \/ BuildVolume(Main)
    \/ BuildTrim(Main)
    \/ BuildMute(Main)
    \/ BuildContainer(Main)
    \/ GenerateInputId
    \/ ResetInputCounter

SpecBuilder == InitBuilder /\ [][NextBuilder]_vars

(***************************************************************************)
(* Properties of the builder (under SpecBuilder)                           *)
(***************************************************************************)
\* the entries of the log made on chain c, in call order
RECURSIVE EntriesOf(_, _)
EntriesOf(log, c) ==
    IF log = <<>> THEN <<>>
    ELSE (IF Head(log).chain = c THEN <<Head(log)>> ELSE <<>>)
             \o EntriesOf(Tail(log), c)

\* the video filters, the audio filters and the number of inputs the
\* entries asked for, in call order
RECURSIVE AskedVideo(_)
AskedVideo(entries) ==
    IF entries = <<>> THEN <<>>
    ELSE Head(entries).video \o AskedVideo(Tail(entries))

RECURSIVE AskedAudio(_)
AskedAudio(entries) ==
    IF entries = <<>> THEN <<>>
    ELSE Head(entries).audio \o AskedAudio(Tail(entries))

RECURSIVE AskedInputs(_)
AskedInputs(entries) ==
    IF entries = <<>> THEN 0
    ELSE Head(entries).inputs + AskedInputs(Tail(entries))

StartsWithInput(c) ==
    /\ EntriesOf(calls, c) # <<>>
    /\ EntriesOf(calls, c)[1].op = "input"

ThrewOverlay(c) ==
    Overlay(c) /\ NoStreamFor(chains[c], chains[c].graph.videoStreams)

\* the step is a filter method on a chain that has no input
ThrewScale(c) ==
    Scale(c) /\ NoStreamFor(chains[c], chains[c].graph.videoStreams)

\* the step is pipe() or toBuffer() failing for the missing container format
ThrewFormat(c) ==
    \E i \in 1..Len(calls') :
        /\ calls'[i].chain = c
        /\ calls'[i].error = Some(FormatError)
        /\ i > Len(calls) \/ calls[i].error # Some(FormatError)

\* C29: overlay() on a chain with no primary input, a filter method on a
\* chain with no input, and pipe() and toBuffer() without a container format
\* leave the graph of the chain as it was before the call.
C29_ThrowLeavesGraph ==
    [][\A c \in ChainIds :
          (ThrewOverlay(c) \/ ThrewScale(c) \/ ThrewFormat(c))
              => chains'[c].graph = chains[c].graph]_vars

(***************************************************************************)
(* The promise of runFFmpeg (under SpecRun)                                *)
(***************************************************************************)
\* the abort event is handled: the listener is registered when the signal
\* aborts
AbortHandled == Abort /\ run.listening

\* C28: the promise of runFFmpeg settles at most once, by the first of the
\* abort, error and close events handled while the process runs: with
\* AbortError for the abort, ExecutionError for the error, resolved for a
\* close with code 0 and the parsed error for any other close; once settled,
\* no event changes the outcome.
C28_SettlesOnce ==
    [][/\ run.pc = "settled" =>
            /\ run'.pc = "settled"
            /\ run'.outcome = run.outcome
            /\ run'.resolved = run.resolved
       /\ (run.pc = "running" /\ (AbortHandled \/ ProcError \/ ProcClose)) =>
            run'.pc = "settled"
       /\ (run.pc = "running" /\ run'.pc = "settled") =>
            \/ AbortHandled /\ run'.outcome = "AbortError"
            \/ ProcError /\ run'.outcome = "ExecutionError"
            \/ ProcClose /\ run.code = Some(0) /\ run'.outcome = "resolved"
            \/ ProcClose /\ run.code # Some(0) /\ run'.outcome = "FFmpegError"
       /\ (run.outcome # "resolved" /\ run'.outcome = "resolved") =>
            ProcClose /\ run.code = Some(0)]_vars

\* the close with code 0 was handled first and the abort came afterwards
C28_Witness ==
    /\ run.outcome = "resolved"
    /\ run.proc = "closed"
    /\ run.abortAt = "settled"

(***************************************************************************)
(* The binary resolver (utils/binary): setBinary and resolveFFmpeg         *)
(***************************************************************************)
\* the paths setBinary is called with
CustomPaths == {"/opt/a/ffmpeg", "/opt/b/ffmpeg"}

\* the path `which ffmpeg` prints
PathBinary == "/usr/bin/ffmpeg"

\* a version as the numbers between its dots; text is "unknown" for the
\* version that could not be parsed
Version(parts) == [parts |-> parts, text |-> ""]
UnknownVersion == [parts |-> <<>>, text |-> "unknown"]

MIN_FFMPEG_VERSION == <<4, 0, 0>>

\* what parseVersion makes of the output of `ffmpeg -version`
VersionOutputs == {None, Some(<<3, 4>>), Some(<<4, 0, 0>>), Some(<<5, 1, 2>>)}

compareVersions(a, b) ==
    LET n == IF Len(a) > Len(b) THEN Len(a) ELSE Len(b)
        part(s, i) == IF i <= Len(s) THEN s[i] ELSE 0
        differ == {i \in 1..n : part(a, i) # part(b, i)}
    IN  IF differ = {} THEN 0
        ELSE LET i == CHOOSE j \in differ : \A k \in differ : j <= k
             IN  IF part(a, i) < part(b, i) THEN -1 ELSE 1

\* setBinary(path)
setBinary(cfg, path) ==
    [cfg EXCEPT !.ffmpegPath = Some(path), !.validated = FALSE, !.version = None]

\* the three assignments of resolveFFmpeg after the version check
cacheValidated(cfg, path, version) ==
    [cfg EXCEPT !.ffmpegPath = Some(path), !.validated = TRUE,
                !.version = Some(version)]

\* one invocation of resolveFFmpeg: the await it stands at, its local
\* ffmpegPath and how it settled
Resolve(pc, path, outcome) == [pc |-> pc, path |-> path, outcome |-> outcome]

SetsMade == Cardinality({i \in 1..Len(binaryLog) : binaryLog[i].op = "setBinary"})

\* setBinary(path), called by the library's user
SetBinary(path) ==
    /\ SetsMade < MaxSets
    /\ config' = setBinary(config, path)
    /\ binaryLog' = Append(binaryLog, [op |-> "setBinary", path |-> path])
    /\ UNCHANGED <<graph, phase, result, compiler, args, filter, expr, thrown,
                   chainVars, again, run, parser, resolves>>

\* resolveFFmpeg() up to its first await: the validated path is returned,
\* otherwise config.ffmpegPath is read and the lookup awaited
ResolveFFmpeg ==
    /\ Len(resolves) < MaxResolves
    /\ IF config.validated /\ config.ffmpegPath # None
       THEN /\ resolves' = Append(resolves,
                               Resolve("done", config.ffmpegPath, "returned"))
            /\ binaryLog' = Append(binaryLog,
                               [op |-> "resolved", path |-> config.ffmpegPath[1]])
       ELSE /\ resolves' = Append(resolves,
                               Resolve("lookup", config.ffmpegPath, "none"))
            /\ UNCHANGED binaryLog
    /\ UNCHANGED <<graph, phase, result, compiler, args, filter, expr, thrown,
                   chainVars, again, run, parser, config>>

\* findOnPath("ffmpeg") or isExecutable(ffmpegPath) settles
LookupDone(i, found) ==
    /\ i \in 1..Len(resolves)
    /\ resolves[i].pc = "lookup"
    /\ resolves' = [resolves EXCEPT ![i] =
           IF ~found
           THEN Resolve("done", @.path, "FFmpegNotFoundError")
           ELSE Resolve("version",
                        IF @.path = None THEN Some(PathBinary) ELSE @.path,
                        "none")]
    /\ UNCHANGED <<graph, phase, result, compiler, args, filter, expr, thrown,
                   chainVars, again, run, parser, config, binaryLog>>

\* execFileAsync(ffmpegPath, ["-version"]) rejects
VersionFailed(i) ==
    /\ i \in 1..Len(resolves)
    /\ resolves[i].pc = "version"
    /\ resolves' = [resolves EXCEPT ![i] =
                       Resolve("done", @.path, "FFmpegNotFoundError")]
    /\ UNCHANGED <<graph, phase, result, compiler, args, filter, expr, thrown,
                   chainVars, again, run, parser, config, binaryLog>>

\* execFileAsync(ffmpegPath, ["-version"]) resolves: the version is parsed
\* and compared, the path is cached and returned
VersionDone(i, version) ==
    /\ i \in 1..Len(resolves)
    /\ resolves[i].pc = "version"
    /\ LET path == resolves[i].path[1]
           old == version # None
                    /\ compareVersions(version[1], MIN_FFMPEG_VERSION) < 0
       IN  IF old
           THEN /\ resolves' = [resolves EXCEPT ![i] =
                                   Resolve("done", @.path, "FFmpegVersionError")]
                /\ UNCHANGED <<config, binaryLog>>
           ELSE /\ resolves' = [resolves EXCEPT ![i] =
                                   Resolve("done", @.path, "returned")]
                /\ config' = cacheValidated(config, path,
                                 IF version = None THEN UnknownVersion
                                 ELSE Version(version[1]))
                /\ binaryLog' = Append(binaryLog,
                                       [op |-> "resolved", path |-> path])
    /\ UNCHANGED <<graph, phase, result, compiler, args, filter, expr, thrown,
                   chainVars, again, run, parser>>

InitBinary ==
    /\ graph = createMediaGraph
    /\ phase = "binary"
    /\ result = NoResult
    /\ compiler = "none"
    /\ args = <<>>
    /\ filter = NoFilter
    /\ expr = ""
    /\ OtherInit

NextBinary ==
    \/ \E path \in CustomPaths : SetBinary(path)
    \/ ResolveFFmpeg
    \/ \E i \in 1..MaxResolves, found \in BOOLEAN : LookupDone(i, found)
    \/ \E i \in 1..MaxResolves : VersionFailed(i)
    \/ \E i \in 1..MaxResolves, version \in VersionOutputs : VersionDone(i, version)

SpecBinary == InitBinary /\ [][NextBinary]_vars

\* the positions of the setBinary calls among the first n entries of the log
SetsBefore(n) == {j \in 1..n : binaryLog[j].op = "setBinary"}

\* the path of the latest setBinary call among the first n entries
Configured(n) == binaryLog[SetMax(SetsBefore(n))].path

\* C30: once setBinary(p) has returned, every resolveFFmpeg() that completes
\* successfully afterwards returns p, and the cache is never marked validated
\* for a path other than the one configured by the latest setBinary.
C30_CacheReflectsSetBinary ==
    /\ \A i \in 1..Len(binaryLog) :
          (binaryLog[i].op = "resolved" /\ SetsBefore(i) # {})
              => binaryLog[i].path = Configured(i)
    /\ (config.validated /\ SetsBefore(Len(binaryLog)) # {})
          => config.ffmpegPath = Some(Configured(Len(binaryLog)))

====
